---- MODULE Spec2Model ----
(***************************************************************************)
(* State-machine model of the PureVisor core: the Raft consensus module    *)
(* (src/src/storage/distributed.c), the storage pool, the physical page    *)
(* allocator, the kernel heap, the cluster scheduler and the VM manager.   *)
(* Every subsystem has its own variables and its own specification; a      *)
(* specification leaves the other subsystems' variables unchanged.         *)
(***************************************************************************)
EXTENDS Integers, Sequences, FiniteSets, TLC

VARIABLES
    raft,       \* node id -> raft_context_t of that node
    net,        \* set of messages handed to send_message and not yet forgotten
    hist,       \* history: leaders seen per term, heartbeat rounds of the scenario
    timer       \* the clock and every node's time stamps, in the timed specification

raftVars == <<raft, net, hist, timer>>

VARIABLES
    pool,       \* storage_pool_t: state, devices, extent table, counters
    vols,       \* live volumes of the pool: volume id -> storage_volume_t
    disk,       \* contents of the physical devices: device index -> cells
    io          \* history: ids handed out, the last write and the last read

poolVars == <<pool, vols, disk, io>>

VARIABLES
    pmm,        \* page_array, the zones' free lists and pmm_stats
    pmh         \* history: allocations outstanding, the last call and its result

pmmVars == <<pmm, pmh>>

VARIABLES
    heap,       \* block headers, free_list, heap bounds and heap_stats
    hph         \* history: live allocations, memory obtained from the PMM

heapVars == <<heap, hph>>

VARIABLES
    cl,         \* the cluster's nodes, the VM manager and its VMs, the scheduler
    clh         \* history: the last call, its request and its result

clVars == <<cl, clh>>

VARIABLES
    pctx,       \* a paging context: its page tables and what the PMM can still grant
    pgh         \* history: the last paging call, its arguments and its result

pgVars == <<pctx, pgh>>

VARIABLES
    ept,        \* an EPT context: its tables and mapped_pages
    eph         \* history: the last EPT call, its arguments and its result

eptVars == <<ept, eph>>

mmuVars == <<pgVars, eptVars>>

VARIABLES
    cluster,    \* a cluster_t: its node list, counts, quorum and leader
    mship       \* history: the last membership call and the clock

memberVars == <<cluster, mship>>

VARIABLES
    vcpu,       \* a vcpu_t: state, launched, exit_reason and its counters
    vxh         \* history: the last VCPU call and what it returned

vmxVars == <<vcpu, vxh>>

VARIABLES
    blk,        \* the block layer: its devices, the statics of block.c, the CPUs' calls
    bkh         \* history: what each finished call returned

blockVars == <<blk, bkh>>

hvVars == <<vmxVars, blockVars>>

allVars == <<raftVars, poolVars, pmmVars, heapVars, clVars, mmuVars, memberVars, hvVars>>

\* A subsystem a specification does not run stays in a fixed idle state.
PoolIdle == pool = <<>> /\ vols = <<>> /\ disk = <<>> /\ io = <<>>

PmmIdle == pmm = <<>> /\ pmh = <<>>

HeapIdle == heap = <<>> /\ hph = <<>>

ClusterIdle == cl = <<>> /\ clh = <<>>

RaftIdle == raft = <<>> /\ net = {} /\ hist = <<>> /\ timer = <<>>

PagingIdle == pctx = <<>> /\ pgh = <<>>

EptIdle == ept = <<>> /\ eph = <<>>

MmuIdle == PagingIdle /\ EptIdle

MemberIdle == cluster = <<>> /\ mship = <<>>

VmxIdle == vcpu = <<>> /\ vxh = <<>>

BlockIdle == blk = <<>> /\ bkh = <<>>

HvIdle == VmxIdle /\ BlockIdle

\* Each subsystem is exercised on its own; the others stay idle.
RaftFrame ==
    UNCHANGED <<poolVars, pmmVars, heapVars, clVars, mmuVars, memberVars, hvVars>>
PoolFrame ==
    UNCHANGED <<raftVars, pmmVars, heapVars, clVars, mmuVars, memberVars, hvVars>>
PmmFrame ==
    UNCHANGED <<raftVars, poolVars, heapVars, clVars, mmuVars, memberVars, hvVars>>
HeapFrame ==
    UNCHANGED <<raftVars, poolVars, pmmVars, clVars, mmuVars, memberVars, hvVars>>
ClusterFrame ==
    UNCHANGED <<raftVars, poolVars, pmmVars, heapVars, mmuVars, memberVars, hvVars>>
PagingFrame ==
    UNCHANGED <<raftVars, poolVars, pmmVars, heapVars, clVars, eptVars, memberVars, hvVars>>
EptFrame ==
    UNCHANGED <<raftVars, poolVars, pmmVars, heapVars, clVars, pgVars, memberVars, hvVars>>
MemberFrame == UNCHANGED <<raftVars, poolVars, pmmVars, heapVars, clVars, mmuVars, hvVars>>
VmxFrame ==
    UNCHANGED <<raftVars, poolVars, pmmVars, heapVars, clVars, mmuVars, memberVars, blockVars>>
BlockFrame ==
    UNCHANGED <<raftVars, poolVars, pmmVars, heapVars, clVars, mmuVars, memberVars, vmxVars>>

(***************************************************************************)
(* Raft: bounds and program constants                                      *)
(***************************************************************************)
MaxElections4 == 2      \* RaftSpec4: candidacies started, cluster-wide
MaxSubmit4 == 2         \* RaftSpec4: entries submitted, cluster-wide
MaxElectionsJ == 2      \* RaftJoinSpec
MaxHeartbeatsJ == 3     \* RaftJoinSpec: heartbeat broadcasts, cluster-wide
MaxSubmitJ == 1         \* RaftJoinSpec
MaxAddsJ == 1           \* RaftJoinSpec: raft_add_node calls after start-up
MaxSubmitS == 1         \* RaftSyncSpec
MaxCycles == 2          \* RaftSyncSpec: heartbeat cycles run after the submit
MaxAppends == 1         \* RaftAppendSpec: AppendEntries requests from the network
MaxReqTerm == 2         \* RaftAppendSpec: terms such a request carries
MaxReqIndex == 1        \* RaftAppendSpec: log indices such a request carries

RAFT_LOG_SIZE == 4
RAFT_FOLLOWER == 0
RAFT_CANDIDATE == 1
RAFT_LEADER == 2
RAFT_LOG_NOOP == 0
RAFT_LOG_WRITE == 1
RAFT_MSG_VOTE_REQ == 1
RAFT_MSG_VOTE_RESP == 2
RAFT_MSG_APPEND_REQ == 3
RAFT_MSG_APPEND_RESP == 4

NoVote == -1
NoData == "null"
Payloads == {"x", "y"}

Max2(a, b) == IF a >= b THEN a ELSE b
Min2(a, b) == IF a <= b THEN a ELSE b

(***************************************************************************)
(* Raft: helper functions                                                  *)
(***************************************************************************)
\* log[0] is the zeroed slot kmalloc(GFP_ZERO) left; first_index stays 0.
ZeroEntry == [term |-> 0, type |-> 0, data |-> NoData]
NoEntry == [term |-> -1, type |-> -1, data |-> NoData]

last_index(r) == Len(r.log)

get_log_entry(r, index) ==
    IF index < 0 \/ index > last_index(r) THEN NoEntry
    ELSE IF index = 0 THEN ZeroEntry
    ELSE r.log[index]

get_last_log_term(r) ==
    IF last_index(r) = 0 THEN 0
    ELSE get_log_entry(r, last_index(r)).term

\* Returns the context after the call and the return code.  A failed kmalloc
\* leaves last_index already advanced and the slot filled with data = NULL.
append_log_entry(r, term, type, data, allocOk) ==
    IF last_index(r) >= RAFT_LOG_SIZE - 1
    THEN [r |-> r, rc |-> -1]
    ELSE IF data # NoData
         THEN IF allocOk
              THEN [r |-> [r EXCEPT !.log = Append(@, [term |-> term, type |-> type, data |-> data])],
                    rc |-> 0]
              ELSE [r |-> [r EXCEPT !.log = Append(@, [term |-> term, type |-> type, data |-> NoData])],
                    rc |-> -1]
         ELSE [r |-> [r EXCEPT !.log = Append(@, [term |-> term, type |-> type, data |-> NoData])],
               rc |-> 0]

(***************************************************************************)
(* Raft: state transitions                                                 *)
(***************************************************************************)
become_follower(r, term) ==
    [r EXCEPT !.state = RAFT_FOLLOWER,
              !.current_term = term,
              !.voted_for = NoVote,
              !.votes_received = 0]

\* The peers a node sends to: table entries that are active and not itself.
Peers(r) ==
    {r.nodes[i].id : i \in {j \in 1..Len(r.nodes) :
                              r.nodes[j].id # r.node_id /\ r.nodes[j].active}}

become_candidate(r) ==
    LET c == [r EXCEPT !.state = RAFT_CANDIDATE,
                       !.current_term = @ + 1,
                       !.voted_for = r.node_id,
                       !.votes_received = 1]
    IN [r |-> c,
        out |-> {[type |-> RAFT_MSG_VOTE_REQ, from |-> c.node_id, to |-> p,
                  term |-> c.current_term,
                  last_log_index |-> last_index(c),
                  last_log_term |-> get_last_log_term(c)] : p \in Peers(c)}]

become_leader(r) ==
    LET l == [r EXCEPT !.state = RAFT_LEADER,
                       !.leader_id = r.node_id,
                       !.nodes = [i \in 1..Len(r.nodes) |->
                                    [r.nodes[i] EXCEPT !.next_index = last_index(r) + 1,
                                                       !.match_index = 0]]]
    IN append_log_entry(l, l.current_term, RAFT_LOG_NOOP, NoData, TRUE).r

(***************************************************************************)
(* Raft: message handlers.  Each returns the context after the handler and *)
(* the set of messages it passed to send_message.                          *)
(***************************************************************************)
handle_vote_request(r, req) ==
    LET r1 == IF req.term > r.current_term THEN become_follower(r, req.term) ELSE r
        last_term == get_last_log_term(r1)
        grant == /\ req.term >= r1.current_term
                 /\ (r1.voted_for = NoVote \/ r1.voted_for = req.from)
                 /\ \/ req.last_log_term > last_term
                    \/ (req.last_log_term = last_term /\ req.last_log_index >= last_index(r1))
        r2 == IF grant THEN [r1 EXCEPT !.voted_for = req.from] ELSE r1
    IN [r |-> r2,
        out |-> {[type |-> RAFT_MSG_VOTE_RESP, from |-> r2.node_id, to |-> req.from,
                  term |-> r2.current_term, granted |-> grant]}]

Majority(r) == (Len(r.nodes) \div 2) + 1

handle_vote_response(r, resp) ==
    IF resp.term > r.current_term
    THEN [r |-> become_follower(r, resp.term), out |-> {}]
    ELSE IF r.state # RAFT_CANDIDATE \/ resp.term # r.current_term
    THEN [r |-> r, out |-> {}]
    ELSE IF resp.granted
    THEN LET r1 == [r EXCEPT !.votes_received = @ + 1]
         IN [r |-> IF r1.votes_received >= Majority(r1) THEN become_leader(r1) ELSE r1,
             out |-> {}]
    ELSE [r |-> r, out |-> {}]

\* The request carries no entries (entry_count is always 0 and the handler
\* parses none): an accepted request changes commit_index only.
handle_append_request(r, req) ==
    LET r1 == IF req.term > r.current_term THEN become_follower(r, req.term) ELSE r
        Resp(rr, ok, mi) ==
            {[type |-> RAFT_MSG_APPEND_RESP, from |-> rr.node_id, to |-> req.from,
              term |-> rr.current_term, success |-> ok, match_index |-> mi]}
    IN IF req.term < r1.current_term
       THEN [r |-> r1, out |-> Resp(r1, FALSE, 0)]
       ELSE LET r2 == [r1 EXCEPT !.leader_id = req.from]
                r3 == IF r2.state = RAFT_CANDIDATE THEN become_follower(r2, req.term) ELSE r2
                prev == get_log_entry(r3, req.prev_log_index)
            IN IF req.prev_log_index > 0 /\ (prev = NoEntry \/ prev.term # req.prev_log_term)
               THEN [r |-> r3, out |-> Resp(r3, FALSE, 0)]
               ELSE LET r4 == IF req.leader_commit > r3.commit_index
                              THEN [r3 EXCEPT !.commit_index =
                                        Min2(req.leader_commit, last_index(r3))]
                              ELSE r3
                    IN [r |-> r4,
                        out |-> Resp(r4, TRUE, req.prev_log_index + req.entry_count)]

\* Index in the node table of the first entry with this id, 0 when absent.
FindNode(r, id) ==
    LET hits == {i \in 1..Len(r.nodes) : r.nodes[i].id = id}
    IN IF hits = {} THEN 0 ELSE CHOOSE i \in hits : \A j \in hits : i <= j

\* Members counted for index n: the leader plus every table entry whose
\* match_index reaches n.
CommitCount(r, n) ==
    1 + Cardinality({i \in 1..Len(r.nodes) : r.nodes[i].match_index >= n})

\* The loop n = commit_index + 1 .. last_index: commit_index ends at the
\* largest n that passes the test (the loop bound is read once per pass and
\* later passes do not depend on earlier ones).
AdvanceCommit(r) ==
    LET ok == {n \in (r.commit_index + 1)..last_index(r) :
                  /\ CommitCount(r, n) >= Majority(r)
                  /\ get_log_entry(r, n).term = r.current_term}
    IN IF ok = {} THEN r
       ELSE [r EXCEPT !.commit_index = CHOOSE n \in ok : \A k \in ok : k <= n]

handle_append_response(r, resp) ==
    IF resp.term > r.current_term
    THEN [r |-> become_follower(r, resp.term), out |-> {}]
    ELSE IF r.state # RAFT_LEADER
    THEN [r |-> r, out |-> {}]
    ELSE LET i == FindNode(r, resp.from)
         IN IF i = 0 THEN [r |-> r, out |-> {}]
            ELSE IF resp.success
            THEN [r |-> AdvanceCommit([r EXCEPT !.nodes[i].match_index = resp.match_index,
                                                !.nodes[i].next_index = resp.match_index + 1]),
                  out |-> {}]
            ELSE [r |-> IF r.nodes[i].next_index > 1
                        THEN [r EXCEPT !.nodes[i].next_index = @ - 1]
                        ELSE r,
                  out |-> {}]

(***************************************************************************)
(* Raft: public API                                                        *)
(***************************************************************************)
raft_init(node_id) ==
    [node_id |-> node_id, state |-> RAFT_FOLLOWER, current_term |-> 0,
     voted_for |-> NoVote, leader_id |-> 0, log |-> <<>>,
     commit_index |-> 0, last_applied |-> 0, nodes |-> <<>>,
     votes_received |-> 0,
     applied |-> <<>>]     \* history of the indices handed to apply_entry

RAFT_MAX_NODES == 4

raft_add_node(r, id) ==
    IF Len(r.nodes) >= RAFT_MAX_NODES THEN r
    ELSE [r EXCEPT !.nodes = Append(@, [id |-> id, active |-> TRUE,
                                        next_index |-> last_index(r) + 1,
                                        match_index |-> 0])]

\* The indices last_applied+1 .. commit_index in order.
Pending(r) == [k \in 1..(r.commit_index - r.last_applied) |-> r.last_applied + k]

\* The apply loop without the advance of last_applied: the next tick hands
\* the same indices to apply_entry again.
ApplyAgain(r) ==
    IF r.last_applied < r.commit_index
    THEN [r EXCEPT !.applied = @ \o Pending(r)]
    ELSE r

\* The apply loop of raft_tick: last_applied steps through every index up to
\* commit_index, and each index whose entry get_log_entry finds is handed to
\* apply_entry.
ApplyCommitted(r) ==
    IF r.last_applied < r.commit_index
    THEN [r EXCEPT !.last_applied = r.commit_index,
                   !.applied = @ \o SelectSeq(Pending(r),
                                              LAMBDA k : get_log_entry(r, k) # NoEntry)]
    ELSE r

Heartbeats(r) ==
    {[type |-> RAFT_MSG_APPEND_REQ, from |-> r.node_id, to |-> r.nodes[i].id,
      term |-> r.current_term,
      prev_log_index |-> r.nodes[i].next_index - 1,
      prev_log_term |-> LET prev == get_log_entry(r, r.nodes[i].next_index - 1)
                        IN IF prev = NoEntry THEN 0 ELSE prev.term,
      leader_commit |-> r.commit_index,
      entry_count |-> 0]
     : i \in {j \in 1..Len(r.nodes) : r.nodes[j].id # r.node_id /\ r.nodes[j].active}}

\* hbDue: now_ms - last_hb >= RAFT_HEARTBEAT_MS; timedOut: now_ms -
\* last_heartbeat >= election_timeout.  Both compare the caller's now_ms with
\* a stored time stamp, so both outcomes are inputs of the tick.
raft_tick(r, hbDue, timedOut) ==
    LET r1 == ApplyCommitted(r)
    IN IF r1.state = RAFT_LEADER
       THEN [r |-> r1, out |-> IF hbDue THEN Heartbeats(r1) ELSE {}]
       ELSE IF timedOut THEN become_candidate(r1)
       ELSE [r |-> r1, out |-> {}]

raft_recv_message(r, m) ==
    CASE m.type = RAFT_MSG_VOTE_REQ -> handle_vote_request(r, m)
      [] m.type = RAFT_MSG_VOTE_RESP -> handle_vote_response(r, m)
      [] m.type = RAFT_MSG_APPEND_REQ -> handle_append_request(r, m)
      [] m.type = RAFT_MSG_APPEND_RESP -> handle_append_response(r, m)
      [] OTHER -> [r |-> r, out |-> {}]

raft_submit(r, type, data, allocOk) ==
    IF r.state # RAFT_LEADER THEN [r |-> r, rc |-> -1]
    ELSE append_log_entry(r, r.current_term, type, data, allocOk)

(***************************************************************************)
(* Raft: the cluster.  Messages stay in net after delivery, so a message   *)
(* can be delivered late, more than once, out of order, or never.  hist    *)
(* counts the inputs given so far against the limits lim of the            *)
(* specification, and records who has been Leader in which term.           *)
(***************************************************************************)
Cluster == DOMAIN raft

\* Every <<term, node>> such that node is Leader in that term.
Leaders(rf) == {<<rf[n].current_term, n>> : n \in {k \in DOMAIN rf : rf[k].state = RAFT_LEADER}}

HistInit(lim) ==
    [leaders |-> {}, elections |-> 0, heartbeats |-> 0, submits |-> 0,
     allocfails |-> 0, adds |-> 0, cycles |-> 0,
     sub |-> [node |-> 0, index |-> 0, data |-> NoData],   \* last successful submit
     rc |-> 0,                                             \* what the last submit returned
     adopted |-> 0,      \* the node an AppendEntries request last raised commit_index on
     appends |-> 0,      \* AppendEntries requests that arrived from outside the model
     lim |-> lim]

Step(n, res, h) ==
    /\ raft' = [raft EXCEPT ![n] = res.r]
    /\ net' = net \cup res.out
    /\ hist' = [h EXCEPT !.leaders = @ \cup Leaders(raft')]
    /\ timer' = timer

RaftAddNode(n, id) ==
    /\ hist.adds < hist.lim.adds
    /\ Len(raft[n].nodes) < RAFT_MAX_NODES
    /\ FindNode(raft[n], id) = 0
    /\ Step(n, [r |-> raft_add_node(raft[n], id), out |-> {}],
            [hist EXCEPT !.adds = @ + 1])

RaftTick(n) ==
    \E hbDue, timedOut \in BOOLEAN :
        LET res == raft_tick(raft[n], hbDue, timedOut)
            elected == res.r.current_term # raft[n].current_term
            beat == res.r.state = RAFT_LEADER /\ res.out # {}
        IN /\ res.r # raft[n] \/ res.out # {}
           /\ elected => hist.elections < hist.lim.elections
           /\ beat => hist.heartbeats < hist.lim.heartbeats
           /\ Step(n, res, [hist EXCEPT !.elections = @ + (IF elected THEN 1 ELSE 0),
                                        !.heartbeats = @ + (IF beat THEN 1 ELSE 0)])

RaftRecv(n) ==
    \E m \in net :
        /\ m.to = n
        /\ LET res == raft_recv_message(raft[n], m)
           IN Step(n, res, IF /\ m.type = RAFT_MSG_APPEND_REQ
                              /\ res.r.commit_index > raft[n].commit_index
                           THEN [hist EXCEPT !.adopted = n]
                           ELSE hist)

\* raft_submit of a WRITE entry; kmalloc of the payload copy may fail.
RaftSubmit(n) ==
    \E data \in Payloads, allocOk \in BOOLEAN :
        LET res == raft_submit(raft[n], RAFT_LOG_WRITE, data, allocOk)
        IN /\ hist.submits < hist.lim.submits
           /\ ~allocOk => hist.allocfails < hist.lim.allocfails
           /\ res.r # raft[n]
           /\ Step(n, [r |-> res.r, out |-> {}],
                   [hist EXCEPT !.submits = @ + 1,
                                !.allocfails = @ + (IF allocOk THEN 0 ELSE 1),
                                !.cycles = 0,
                                !.rc = res.rc,
                                !.sub = IF res.rc = 0
                                        THEN [node |-> n, index |-> last_index(res.r),
                                              data |-> data]
                                        ELSE @])

\* A node with the whole membership 1..k registered, itself included, in id
\* order (main.c registers the local node with raft_add_node).
RECURSIVE AddAll(_, _)
AddAll(r, k) == IF k = 0 THEN r ELSE raft_add_node(AddAll(r, k - 1), k)

(***************************************************************************)
(* RaftSpec4: four nodes, each with all four registered.                   *)
(***************************************************************************)
RaftInit4 ==
    /\ timer = <<>>
    /\ raft = [n \in 1..4 |-> AddAll(raft_init(n), 4)]
    /\ net = {}
    /\ hist = HistInit([elections |-> MaxElections4, heartbeats |-> 0,
                        submits |-> MaxSubmit4, allocfails |-> 0, adds |-> 0,
                        cycles |-> 0])

RaftNext4 ==
    \/ (\E n \in Cluster : RaftTick(n)) /\ RaftFrame
    \/ (\E n \in Cluster : RaftRecv(n)) /\ RaftFrame
    \/ (\E n \in Cluster : RaftSubmit(n)) /\ RaftFrame

RaftSpec4Init == RaftInit4 /\ PoolIdle /\ PmmIdle /\ HeapIdle /\ ClusterIdle /\ MmuIdle
    /\ MemberIdle
    /\ HvIdle

RaftSpec4 == RaftSpec4Init /\ [][RaftNext4]_allVars

\* C1: for every term at most one node is ever Leader in that term.
ElectionSafety ==
    \A a, b \in hist.leaders : a[1] = b[1] => a[2] = b[2]

\* Entries of two logs agree at every index 1..k.
SamePrefix(r1, r2, k) ==
    \A j \in 1..k : r1.log[j].term = r2.log[j].term /\ r1.log[j].data = r2.log[j].data

\* C10: two nodes that hold an entry with the same index and the same term
\* have identical logs (term and payload) up to and including that index.
LogMatching ==
    \A a, b \in Cluster :
        \A k \in 1..Min2(last_index(raft[a]), last_index(raft[b])) :
            raft[a].log[k].term = raft[b].log[k].term => SamePrefix(raft[a], raft[b], k)

(***************************************************************************)
(* RaftJoinSpec: three nodes while the cluster forms.  Node 1 is the seed  *)
(* and has registered itself (main.c); node 2 has joined node 1 and node 3 *)
(* has joined node 2, each with one dist_storage_join call, which          *)
(* registers the remote node only.  Further raft_add_node calls may follow *)
(* at any time.                                                            *)
(***************************************************************************)
Seed == 1

dist_storage_join(r, remote) == raft_add_node(r, remote)

RaftInitJ ==
    /\ timer = <<>>
    /\ raft = [n \in 1..3 |-> IF n = Seed THEN raft_add_node(raft_init(n), n)
                              ELSE dist_storage_join(raft_init(n), n - 1)]
    /\ net = {}
    /\ hist = HistInit([elections |-> MaxElectionsJ, heartbeats |-> MaxHeartbeatsJ,
                        submits |-> MaxSubmitJ, allocfails |-> 1, adds |-> MaxAddsJ,
                        cycles |-> 0])

RaftNextJ ==
    \/ (\E n \in Cluster : RaftTick(n)) /\ RaftFrame
    \/ (\E n \in Cluster : RaftRecv(n)) /\ RaftFrame
    \/ (\E n \in Cluster : RaftSubmit(n)) /\ RaftFrame
    \/ (\E n \in Cluster, id \in Cluster : RaftAddNode(n, id)) /\ RaftFrame

RaftJoinSpecInit == RaftInitJ /\ PoolIdle /\ PmmIdle /\ HeapIdle /\ ClusterIdle /\ MmuIdle
    /\ MemberIdle
    /\ HvIdle

RaftJoinSpec == RaftJoinSpecInit /\ [][RaftNextJ]_allVars

\* C2: two nodes whose commit_index both reach i hold the same term and the
\* same payload at index i.
CommittedAgree ==
    \A a, b \in Cluster :
        \A i \in 1..Min2(raft[a].commit_index, raft[b].commit_index) :
            /\ raft[a].log[i].term = raft[b].log[i].term
            /\ raft[a].log[i].data = raft[b].log[i].data

\* What raft_submit would return on node n now: an error whenever n is not
\* Leader or its log is full, and then with the context unchanged.
SubmitRefused(n) ==
    \A data \in Payloads, allocOk \in BOOLEAN :
        (raft[n].state # RAFT_LEADER \/ last_index(raft[n]) >= RAFT_LOG_SIZE - 1) =>
            raft_submit(raft[n], RAFT_LOG_WRITE, data, allocOk) = [r |-> raft[n], rc |-> -1]

\* C20: raft_submit returns an error whenever the node is not Leader or the
\* log is full; a submit that returned an error appended nothing (the log,
\* and so last_index, is as before); a submit that returned success stored
\* its entry at last_index + 1 with the current term.
SubmitAllOrNothing ==
    [][/\ \A n \in Cluster : SubmitRefused(n)
       /\ hist'.submits = hist.submits + 1 =>
              \A n \in Cluster :
                  raft'[n] # raft[n] =>
                      IF hist'.rc = 0
                      THEN /\ raft[n].state = RAFT_LEADER
                           /\ last_index(raft'[n]) = last_index(raft[n]) + 1
                           /\ SubSeq(raft'[n].log, 1, last_index(raft[n])) = raft[n].log
                           /\ raft'[n].log[last_index(raft'[n])].term = raft[n].current_term
                      ELSE raft'[n].log = raft[n].log]_allVars

\* The members a node knows: itself and every id in its node table.
Members(r) == {r.node_id} \cup {r.nodes[i].id : i \in 1..Len(r.nodes)}

\* The members that hold index n as far as leader r knows: r itself and the
\* members recorded with a match_index of at least n.
Holders(r, n) ==
    {r.node_id} \cup {r.nodes[i].id : i \in {j \in 1..Len(r.nodes) : r.nodes[j].match_index >= n}}

\* C24: a leader advances commit_index to n only if the members (the leader
\* included) whose match_index is at least n are a majority of the cluster
\* and the entry at index n has the leader's current_term.
LeaderCommitNeedsMajority ==
    [][\A n \in Cluster :
          (/\ raft[n].state = RAFT_LEADER
           /\ raft'[n].state = RAFT_LEADER
           /\ raft'[n].commit_index > raft[n].commit_index) =>
              LET k == raft'[n].commit_index
              IN /\ 2 * Cardinality(Holders(raft'[n], k)) > Cardinality(Members(raft'[n]))
                 /\ raft'[n].log[k].term = raft'[n].current_term]_allVars

\* The votes cast so far, as <<term, voter, candidate>>: net keeps every
\* message sent, so every granted VoteResponse is a vote of its sender for
\* its receiver, and every VoteRequest a vote of its sender for itself.
VotesCast ==
    {<<m.term, m.from, m.to>> : m \in {x \in net : x.type = RAFT_MSG_VOTE_RESP /\ x.granted}}
    \cup {<<m.term, m.from, m.from>> : m \in {x \in net : x.type = RAFT_MSG_VOTE_REQ}}

\* C36: within a single term a node grants its vote to at most one
\* candidate, its own candidacy counting as a vote for itself.
OneVotePerTerm ==
    \A a, b \in VotesCast : (a[1] = b[1] /\ a[2] = b[2]) => a[3] = b[3]

\* The nodes that voted for n in term t.
VotersFor(n, t) == {v[2] : v \in {x \in VotesCast : x[1] = t /\ x[3] = n}}

\* C40: votes_received never exceeds the number of distinct nodes that
\* granted the candidate their vote in its term (the candidate included), also
\* when a granted VoteResponse is delivered more than once.
VotesAreDistinctVoters ==
    \A n \in Cluster :
        raft[n].votes_received <= Cardinality(VotersFor(n, raft[n].current_term) \cup {n})

\* C34: the granted votes with which a candidate becomes Leader, and the
\* members holding an entry when a leader commits it, are a strict majority
\* of the whole cluster (the local node included), whether or not the local
\* node is itself in the node table.
QuorumOfWholeCluster ==
    [][\A n \in Cluster :
          /\ (raft[n].state = RAFT_CANDIDATE /\ raft'[n].state = RAFT_LEADER) =>
                 2 * raft'[n].votes_received > Cardinality(Members(raft'[n]))
          /\ (/\ raft[n].state = RAFT_LEADER
              /\ raft'[n].state = RAFT_LEADER
              /\ raft'[n].commit_index > raft[n].commit_index) =>
                 2 * Cardinality(Holders(raft'[n], raft'[n].commit_index)) >
                     Cardinality(Members(raft'[n]))]_allVars

\* The indices 1 .. k in order.
UpTo(k) == [i \in 1..k |-> i]

\* C25: on every node commit_index never decreases, and apply_entry is
\* invoked for the log indices in strictly increasing order starting at 1:
\* the indices applied so far are exactly 1 .. last_applied (none skipped,
\* none twice), none of them is above commit_index, and a run of the apply
\* loop goes up to commit_index.
ApplyInOrder ==
    /\ [](\A n \in Cluster :
             /\ raft[n].applied = UpTo(raft[n].last_applied)
             /\ raft[n].last_applied <= raft[n].commit_index)
    /\ [][\A n \in Cluster :
             /\ raft'[n].commit_index >= raft[n].commit_index
             /\ raft'[n].applied # raft[n].applied =>
                    raft'[n].applied = UpTo(raft'[n].commit_index)]_allVars

\* A node has applied two indices, and an AppendEntries request has raised a
\* node's commit_index, which that node has applied.
ApplyInOrderWitness ==
    /\ \E n \in Cluster : Len(raft[n].applied) >= 2
    /\ hist.adopted # 0
    /\ raft[hist.adopted].applied # <<>>

(***************************************************************************)
(* RaftAppendSpec: three nodes, each with all three registered, to which   *)
(* AppendEntries requests arrive from the network.  A request is the       *)
(* raft_append_request_t header followed by entry_count log entries, as    *)
(* a peer's leader sends it.                                               *)
(***************************************************************************)
AppendEntriesOf == {<<>>} \cup {<<[term |-> t, type |-> RAFT_LOG_WRITE, data |-> "x"]>> : t \in 1..MaxReqTerm}

AppendRequests(n) ==
    {[type |-> RAFT_MSG_APPEND_REQ, from |-> f, to |-> n, term |-> t,
      prev_log_index |-> pi, prev_log_term |-> pt, leader_commit |-> lc,
      entry_count |-> Len(es), entries |-> es] :
        f \in Cluster \ {n}, t \in 0..MaxReqTerm, pi \in 0..MaxReqIndex,
        pt \in 0..MaxReqTerm, lc \in 0..MaxReqIndex, es \in AppendEntriesOf}

RaftRecvAppend(n) ==
    \E req \in AppendRequests(n) :
        /\ hist.appends < MaxAppends
        /\ Step(n, raft_recv_message(raft[n], req), [hist EXCEPT !.appends = @ + 1])

RaftInitA ==
    /\ timer = <<>>
    /\ raft = [n \in 1..3 |-> AddAll(raft_init(n), 3)]
    /\ net = {}
    /\ hist = HistInit([elections |-> 1, heartbeats |-> 1, submits |-> 1,
                        allocfails |-> 0, adds |-> 0, cycles |-> 0])

RaftNextA ==
    \/ (\E n \in Cluster : RaftTick(n)) /\ RaftFrame
    \/ (\E n \in Cluster : RaftRecv(n)) /\ RaftFrame
    \/ (\E n \in Cluster : RaftSubmit(n)) /\ RaftFrame
    \/ (\E n \in Cluster : RaftRecvAppend(n)) /\ RaftFrame

RaftAppendSpecInit == RaftInitA /\ PoolIdle /\ PmmIdle /\ HeapIdle /\ ClusterIdle /\ MmuIdle
    /\ MemberIdle
    /\ HvIdle

RaftAppendSpec == RaftAppendSpecInit /\ [][RaftNextA]_allVars

\* The request is one a node in state r has to reject: its term is below
\* current_term, or the entry at prev_log_index is missing or has another term.
MustReject(r, req) ==
    \/ req.term < r.current_term
    \/ /\ req.prev_log_index > 0
       /\ LET prev == get_log_entry(r, req.prev_log_index)
          IN prev = NoEntry \/ prev.term # req.prev_log_term

\* The log after accepting the request: the entries up to prev_log_index,
\* then the request's entries, then what the old log held beyond them unless
\* one of them conflicts with the old log.
LogAfterAppend(r, req) ==
    LET head == SubSeq(r.log, 1, req.prev_log_index) \o req.entries
        agree == \A k \in (req.prev_log_index + 1)..Min2(Len(head), Len(r.log)) :
                     r.log[k].term = head[k].term
    IN IF agree /\ Len(r.log) > Len(head)
       THEN head \o SubSeq(r.log, Len(head) + 1, Len(r.log))
       ELSE head

\* C26: a node rejects an AppendEntries request whose term is below its
\* current_term or whose prev_log_index entry is missing or has a different
\* term; when it accepts, its log afterwards holds the request's entries
\* right after prev_log_index with any conflicting suffix removed, and its
\* commit_index has advanced to min(leader_commit, last_index) (it stays
\* where it is when that would not be an advance).
AppendRequestHandled ==
    \A n \in Cluster :
        \A req \in AppendRequests(n) :
            LET res == handle_append_request(raft[n], req)
            IN \A resp \in res.out :
                   IF MustReject(raft[n], req)
                   THEN ~resp.success
                   ELSE /\ resp.success
                        /\ res.r.log = LogAfterAppend(raft[n], req)
                        /\ res.r.commit_index =
                               Max2(raft[n].commit_index,
                                    Min2(req.leader_commit, last_index(res.r)))

(***************************************************************************)
(* RaftSyncSpec: three nodes, each with all three registered.  Besides the *)
(* asynchronous steps, a leader can run one full heartbeat cycle without   *)
(* message loss: its tick sends the heartbeats, every follower handles its *)
(* heartbeat, the leader handles every response, and every node ticks      *)
(* (which applies what is committed).                                      *)
(***************************************************************************)
RECURSIVE RecvAll(_, _)
RecvAll(r, msgs) ==
    IF msgs = {} THEN r
    ELSE LET m == CHOOSE x \in msgs : \A y \in msgs : x.from <= y.from
         IN RecvAll(raft_recv_message(r, m).r, msgs \ {m})

CycleResult(rf, n) ==
    LET t == raft_tick(rf[n], TRUE, FALSE)
        rf1 == [rf EXCEPT ![n] = t.r]
        For(k) == {m \in t.out : m.to = k}
        rf2 == [k \in DOMAIN rf |-> RecvAll(rf1[k], For(k))]
        resps == UNION {raft_recv_message(rf1[m.to], m).out : m \in t.out}
        rf3 == [rf2 EXCEPT ![n] = RecvAll(@, {m \in resps : m.to = n})]
    IN [k \in DOMAIN rf |-> raft_tick(rf3[k], FALSE, FALSE).r]

HeartbeatCycle(n) ==
    /\ raft[n].state = RAFT_LEADER
    /\ hist.cycles < hist.lim.cycles
    /\ raft' = CycleResult(raft, n)
    /\ net' = net
    /\ timer' = timer
    /\ hist' = [hist EXCEPT !.cycles = @ + 1,
                            !.leaders = @ \cup Leaders(raft')]

RaftInitS ==
    /\ timer = <<>>
    /\ raft = [n \in 1..3 |-> AddAll(raft_init(n), 3)]
    /\ net = {}
    /\ hist = HistInit([elections |-> 1, heartbeats |-> 0, submits |-> MaxSubmitS,
                        allocfails |-> 0, adds |-> 0, cycles |-> MaxCycles])

RaftNextS ==
    \/ (\E n \in Cluster : RaftTick(n)) /\ RaftFrame
    \/ (\E n \in Cluster : RaftRecv(n)) /\ RaftFrame
    \/ (\E n \in Cluster : RaftSubmit(n)) /\ RaftFrame
    \/ (\E n \in Cluster : HeartbeatCycle(n)) /\ RaftFrame

RaftSyncSpecInit == RaftInitS /\ PoolIdle /\ PmmIdle /\ HeapIdle /\ ClusterIdle /\ MmuIdle
    /\ MemberIdle
    /\ HvIdle

RaftSyncSpec == RaftSyncSpecInit /\ [][RaftNextS]_allVars

\* Number of times index k was handed to apply_entry on this node.
ApplyCount(r, k) == Cardinality({j \in 1..Len(r.applied) : r.applied[j] = k})

\* C3: once a WRITE entry was submitted with success on the leader and two
\* full heartbeat cycles have run since, every node holds the entry at the
\* same index with the same payload and has applied it exactly once.
ReplicatedAfterTwoCycles ==
    (hist.sub.index > 0 /\ hist.cycles >= 2) =>
        \A n \in Cluster :
            /\ last_index(raft[n]) >= hist.sub.index
            /\ raft[n].log[hist.sub.index].data = hist.sub.data
            /\ raft[n].log[hist.sub.index].type = RAFT_LOG_WRITE
            /\ ApplyCount(raft[n], hist.sub.index) = 1

(***************************************************************************)
(* Storage pool (src/src/storage/pool.c).  Sizes and offsets are counted   *)
(* in cells; an extent is ExtentCells cells.                               *)
(***************************************************************************)
ExtentCells == 2        \* POOL_EXTENT_SIZE, scaled
DevExtents == 2         \* extents per physical device
MaxDevices == 2         \* pool_add_device calls
MaxVolumes == 2         \* volume ids handed out
MaxIoLen == 2           \* longest request, in cells
MaxVolExtents == 2      \* largest volume, in extents
MaxWrites == 2          \* write requests issued

POOL_STATE_OFFLINE == 0
POOL_STATE_DEGRADED == 1
POOL_STATE_ONLINE == 2
EXTENT_FREE == 0
EXTENT_ALLOCATED == 1
BLOCK_OP_READ == 0
BLOCK_OP_WRITE == 1

Bytes == {1, 2}         \* non-zero cell values a caller writes

ZeroExtent ==
    [state |-> EXTENT_FREE, volume_id |-> 0, volume_offset |-> 0, device_id |-> 0,
     device_offset |-> 0, replica_count |-> 0, replica_extents |-> <<0, 0, 0>>]

\* block_read / block_write on a physical (memory) device: the range check of
\* block.c, then the copy of mem_submit.
DevSize(p, d) == p.devsize[d + 1]

phys_read(p, dk, d, offset, len) ==
    IF offset + len > DevSize(p, d) THEN [rc |-> -1, buf |-> <<>>]
    ELSE [rc |-> 0, buf |-> [k \in 1..len |-> dk[d][offset + k - 1]]]

phys_write(p, dk, d, offset, buf) ==
    IF offset + Len(buf) > DevSize(p, d) THEN [rc |-> -1, dk |-> dk]
    ELSE [rc |-> 0,
          dk |-> [dk EXCEPT ![d] = [c \in DOMAIN dk[d] |->
                                      IF c >= offset /\ c < offset + Len(buf)
                                      THEN buf[c - offset + 1] ELSE dk[d][c]]]]

\* First free extent in lo..hi, or -1.
FirstFree(p, lo, hi) ==
    LET free == {i \in lo..hi : i < p.total_extents /\ p.extents[i].state = EXTENT_FREE}
    IN IF free = {} THEN -1 ELSE CHOOSE i \in free : \A j \in free : i <= j

pool_alloc_extent(p) ==
    IF p.free_extents = 0 THEN [rc |-> -1, p |-> p, id |-> 0]
    ELSE LET a == FirstFree(p, p.next_extent, p.total_extents - 1)
             b == FirstFree(p, 1, p.next_extent - 1)
             i == IF a # -1 THEN a ELSE b
         IN IF i = -1 THEN [rc |-> -1, p |-> p, id |-> 0]
            ELSE [rc |-> 0, id |-> i,
                  p |-> [p EXCEPT !.extents[i].state = EXTENT_ALLOCATED,
                                  !.free_extents = @ - 1,
                                  !.next_extent = i + 1]]

pool_free_extent(p, extent_id) ==
    IF extent_id > 0 /\ extent_id < p.total_extents
    THEN [p EXCEPT !.extents[extent_id].state = EXTENT_FREE,
                   !.extents[extent_id].volume_id = 0,
                   !.free_extents = @ + 1]
    ELSE p

RECURSIVE FreeAll(_, _)
FreeAll(p, ids) ==
    IF ids = <<>> THEN p ELSE FreeAll(pool_free_extent(p, Head(ids)), Tail(ids))

\* The replica loop r = from..replication of pool_alloc_replicated_extent;
\* ids holds extent_ids[0..r-1].
RECURSIVE AllocReplicas(_, _, _, _)
AllocReplicas(p, replication, r, ids) ==
    IF r > replication
    THEN [rc |-> 0, ids |-> ids,
          p |-> [p EXCEPT !.extents[ids[1]].replica_count = replication]]
    ELSE LET a == pool_alloc_extent(p)
         IN IF a.rc # 0
            THEN [rc |-> -1, ids |-> ids, p |-> FreeAll(a.p, ids)]
            ELSE AllocReplicas([a.p EXCEPT !.extents[ids[1]].replica_extents[r] = a.id],
                               replication, r + 1, Append(ids, a.id))

pool_alloc_replicated_extent(p, replication) ==
    IF p.free_extents < replication + 1 THEN [rc |-> -1, ids |-> <<>>, p |-> p]
    ELSE LET a == pool_alloc_extent(p)
         IN IF a.rc # 0 THEN [rc |-> -1, ids |-> <<>>, p |-> a.p]
            ELSE AllocReplicas(a.p, replication, 1, <<a.id>>)

pool_create ==
    [state |-> POOL_STATE_OFFLINE, devsize |-> <<>>, extents |-> <<>>,
     total_extents |-> 0, free_extents |-> 0, next_extent |-> 0,
     used_size |-> 0, free_size |-> 0]

\* extents is indexed from 0, as the C array is.
pool_add_device(p, dev_extents) ==
    LET old_total == p.total_extents
        new_total == old_total + dev_extents
        dev_idx == Len(p.devsize)
        p1 == [p EXCEPT
                 !.devsize = Append(@, dev_extents * ExtentCells),
                 !.extents = [i \in 0..(new_total - 1) |->
                                IF i < old_total THEN p.extents[i]
                                ELSE [ZeroExtent EXCEPT
                                        !.device_id = dev_idx,
                                        !.device_offset = (i - old_total) * ExtentCells]],
                 !.total_extents = new_total,
                 !.free_extents = @ + dev_extents]
    IN [p1 EXCEPT !.free_size = p1.free_extents * ExtentCells,
                  !.state = IF @ = POOL_STATE_OFFLINE THEN POOL_STATE_ONLINE ELSE @]

(***************************************************************************)
(* Volumes                                                                 *)
(***************************************************************************)
\* The pre-allocation loop i = from..num_extents-1 of a thick volume_create;
\* map holds extent_map[0..i-1] (as a sequence, map[i+1] is extent_map[i]).
RECURSIVE PreAllocate(_, _, _, _, _)
PreAllocate(p, id, num_extents, replication, map) ==
    IF Len(map) = num_extents THEN [rc |-> 0, p |-> p, map |-> map]
    ELSE LET a == pool_alloc_replicated_extent(p, replication)
             i == Len(map)
         IN IF a.rc # 0
            THEN [rc |-> -1, p |-> FreeAll(a.p, map), map |-> map]
            ELSE PreAllocate([a.p EXCEPT !.extents[a.ids[1]].volume_id = id,
                                         !.extents[a.ids[1]].volume_offset = i * ExtentCells],
                             id, num_extents, replication, Append(map, a.ids[1]))

\* Returns rc = -1 for NULL.  id is next_volume_id, taken only once the
\* space check has passed.
volume_create(p, id, size, replication, thin) ==
    LET num_extents == (size + ExtentCells - 1) \div ExtentCells
        needed == num_extents * (replication + 1)
        vol == [id |-> id, size |-> num_extents * ExtentCells, allocated |-> 0,
                replication |-> replication, thin_provisioned |-> thin, online |-> TRUE,
                num_extents |-> num_extents,
                extent_map |-> [i \in 1..num_extents |-> 0]]
    IN IF p.state = POOL_STATE_OFFLINE \/ (~thin /\ p.free_extents < needed)
       THEN [rc |-> -1, p |-> p, vol |-> vol, took_id |-> FALSE]
       ELSE IF thin THEN [rc |-> 0, p |-> p, vol |-> vol, took_id |-> TRUE]
       ELSE LET a == PreAllocate(p, id, num_extents, replication, <<>>)
            IN IF a.rc # 0 THEN [rc |-> -1, p |-> a.p, vol |-> vol, took_id |-> TRUE]
               ELSE [rc |-> 0, took_id |-> TRUE,
                     p |-> [a.p EXCEPT !.used_size = @ + vol.size,
                                       !.free_size = @ - vol.size],
                     vol |-> [vol EXCEPT !.extent_map = a.map, !.allocated = vol.size]]

\* The extents volume_destroy frees, in order: for every mapped logical
\* extent its replicas, then the extent itself.
RECURSIVE DestroyOrder(_, _, _)
DestroyOrder(p, vol, i) ==
    IF i > vol.num_extents THEN <<>>
    ELSE IF vol.extent_map[i] = 0 THEN DestroyOrder(p, vol, i + 1)
    ELSE LET ext == p.extents[vol.extent_map[i]]
         IN [r \in 1..ext.replica_count |-> ext.replica_extents[r]]
            \o <<vol.extent_map[i]>> \o DestroyOrder(p, vol, i + 1)

volume_destroy(p, vol) ==
    LET p1 == FreeAll(p, DestroyOrder(p, vol, 1))
    IN [p1 EXCEPT !.used_size = @ - vol.allocated,
                  !.free_size = @ + vol.allocated]

\* The replica loop r = from..replica_count of volume_submit; the status of a
\* replica write is not looked at.
RECURSIVE WriteReplicas(_, _, _, _, _, _)
WriteReplicas(p, dk, ext, extent_offset, buf, r) ==
    IF r > ext.replica_count THEN dk
    ELSE LET rep == p.extents[ext.replica_extents[r]]
         IN WriteReplicas(p,
                phys_write(p, dk, rep.device_id, rep.device_offset + extent_offset, buf).dk,
                ext, extent_offset, buf, r + 1)

\* volume_submit reached through block_read / block_write on the volume's
\* block device (block.c checks the range against the volume size first).
\* Returns the status, the buffer read, and the pool, volume and disk after.
volume_submit(p, vol, dk, op, offset, buf, len) ==
    LET fail == [rc |-> -1, buf |-> <<>>, p |-> p, vol |-> vol, dk |-> dk]
        extent_idx == offset \div ExtentCells
        extent_offset == offset % ExtentCells
    IN IF offset + len > vol.size THEN fail
       ELSE IF ~vol.online \/ p.state = POOL_STATE_OFFLINE THEN fail
       ELSE IF extent_idx >= vol.num_extents THEN fail
       ELSE LET mapped == vol.extent_map[extent_idx + 1]
                a == IF mapped = 0 /\ op = BLOCK_OP_WRITE
                     THEN pool_alloc_extent(p)
                     ELSE [rc |-> 0, p |-> p, id |-> mapped]
            IN IF a.rc # 0 THEN fail
               ELSE LET pool_extent == a.id
                        vol1 == IF mapped = 0 /\ op = BLOCK_OP_WRITE
                                THEN [vol EXCEPT !.extent_map[extent_idx + 1] = pool_extent,
                                                 !.allocated = @ + ExtentCells]
                                ELSE vol
                        ext == a.p.extents[pool_extent]
                        phys_offset == ext.device_offset + extent_offset
                    IN IF pool_extent = 0 /\ op = BLOCK_OP_READ
                       THEN [rc |-> 0, buf |-> [k \in 1..len |-> 0],
                             p |-> a.p, vol |-> vol1, dk |-> dk]
                       ELSE IF op = BLOCK_OP_READ
                       THEN LET rd == phys_read(a.p, dk, ext.device_id, phys_offset, len)
                            IN [rc |-> rd.rc, buf |-> rd.buf,
                                p |-> a.p, vol |-> vol1, dk |-> dk]
                       ELSE LET w == phys_write(a.p, dk, ext.device_id, phys_offset, buf)
                            IN [rc |-> w.rc, buf |-> <<>>, p |-> a.p, vol |-> vol1,
                                dk |-> WriteReplicas(a.p, w.dk, ext, extent_offset, buf, 1)]

volume_snapshot(p, id, vol) ==
    LET c == volume_create(p, id, vol.size, vol.replication, TRUE)
    IN IF c.rc # 0 THEN c
       ELSE [c EXCEPT !.vol.extent_map = vol.extent_map]

(***************************************************************************)
(* The pool as a state machine.  io records next_volume_id, the number of  *)
(* writes issued and the last write request.  A read changes nothing but   *)
(* the I/O counters, which are not modelled: block_read is the operator    *)
(* below, evaluated on the state a read would find.                        *)
(***************************************************************************)
NoIo == [vol |-> 0, offset |-> 0, len |-> 0, rc |-> 0, buf |-> <<>>]

PoolInit ==
    /\ pool = pool_create
    /\ vols = <<>>
    /\ disk = <<>>
    /\ io = [next_volume_id |-> 1, writes |-> 0, w |-> NoIo]

PoolAddDevice ==
    /\ Len(pool.devsize) < MaxDevices
    /\ pool' = pool_add_device(pool, DevExtents)
    /\ disk' = [d \in 0..Len(pool.devsize) |->
                  IF d < Len(pool.devsize) THEN disk[d]
                  ELSE [c \in 0..(DevExtents * ExtentCells - 1) |-> 0]]
    /\ UNCHANGED <<vols, io>>

\* vols maps the ids of the live volumes to their records.
Live == DOMAIN vols

WithVol(id, vol) == [i \in Live \cup {id} |-> IF i = id THEN vol ELSE vols[i]]

WithoutVol(id) == [i \in Live \ {id} |-> vols[i]]

Created(c) ==
    /\ pool' = c.p
    /\ vols' = IF c.rc = 0 THEN WithVol(c.vol.id, c.vol) ELSE vols
    /\ io' = [io EXCEPT !.next_volume_id = @ + (IF c.took_id THEN 1 ELSE 0)]
    /\ UNCHANGED disk

\* Sizes asked for: one cell short of 1..MaxVolExtents whole extents.
VolSizes == {k * ExtentCells - 1 : k \in 1..MaxVolExtents}

VolumeCreate ==
    \E size \in VolSizes, replication \in 0..1, thin \in BOOLEAN :
        /\ io.next_volume_id <= MaxVolumes
        /\ Created(volume_create(pool, io.next_volume_id, size, replication, thin))

VolumeSnapshot ==
    \E id \in Live :
        /\ io.next_volume_id <= MaxVolumes
        /\ Created(volume_snapshot(pool, io.next_volume_id, vols[id]))

VolumeDestroy ==
    \E id \in Live :
        /\ pool' = volume_destroy(pool, vols[id])
        /\ vols' = WithoutVol(id)
        /\ UNCHANGED <<disk, io>>

Buffers == UNION {[1..n -> Bytes] : n \in 1..MaxIoLen}

VolumeWrite ==
    \E id \in Live, offset \in 0..(MaxVolExtents * ExtentCells - 1), buf \in Buffers :
        LET res == volume_submit(pool, vols[id], disk, BLOCK_OP_WRITE, offset, buf, Len(buf))
        IN /\ io.writes < MaxWrites
           /\ pool' = res.p
           /\ vols' = [vols EXCEPT ![id] = res.vol]
           /\ disk' = res.dk
           /\ io' = [io EXCEPT !.writes = @ + 1,
                               !.w = [vol |-> id, offset |-> offset, len |-> Len(buf),
                                      rc |-> res.rc, buf |-> buf]]

PoolNext ==
    \/ PoolAddDevice /\ PoolFrame
    \/ VolumeCreate /\ PoolFrame
    \/ VolumeSnapshot /\ PoolFrame
    \/ VolumeDestroy /\ PoolFrame
    \/ VolumeWrite /\ PoolFrame

block_read(id, offset, len) ==
    volume_submit(pool, vols[id], disk, BLOCK_OP_READ, offset, <<>>, len)

\* C4: as long as no other write was issued, a read of the range of the last
\* write, if that write succeeded, succeeds and returns the bytes written.
WriteThenRead ==
    (io.w.vol \in Live /\ io.w.rc = 0) =>
        LET rd == block_read(io.w.vol, io.w.offset, io.w.len)
        IN rd.rc = 0 /\ rd.buf = io.w.buf

\* The physical extents behind the primary extent that the extent map records
\* for the last write: the primary and its replica_count linked replicas.
Backing ==
    LET vol == vols[io.w.vol]
        primary == vol.extent_map[(io.w.offset \div ExtentCells) + 1]
        ext == pool.extents[primary]
    IN {primary} \cup {ext.replica_extents[r] : r \in 1..ext.replica_count}

BackingDevices == {pool.extents[e].device_id : e \in Backing}

\* C11: right after a successful write to a volume with replication k, the
\* primary extent of the written range is backed by k+1 allocated physical
\* extents (itself and k linked replicas), on as many distinct devices as the
\* pool has, up to k+1.
ReplicationCount ==
    [][(io'.writes = io.writes + 1 /\ io'.w.rc = 0) =>
          (/\ Cardinality(Backing') = vols'[io'.w.vol].replication + 1
           /\ \A e \in Backing' : pool'.extents[e].state = EXTENT_ALLOCATED
           /\ Cardinality(BackingDevices') =
                  Min2(vols'[io'.w.vol].replication + 1, Len(pool'.devsize)))]_allVars

(***************************************************************************)
(* Extent allocation on its own.  ExtentSpec runs the calls that allocate  *)
(* and free extents: devices are added, thick volumes created with         *)
(* replication 0..POOL_REPL_TRIPLE, snapshotted and destroyed, and         *)
(* pool_alloc_replicated_extent is called on the pool these leave.         *)
(* io.alloc records the last such call.                                    *)
(***************************************************************************)
\* The extent a write at this volume offset went to, read after the write.
WrittenExtent(w) == pool'.extents[vols'[w.vol].extent_map[(w.offset \div ExtentCells) + 1]]

\* block_write of the request's buffer fails on at least one replica of the
\* extent written.
ReplicaWriteFailed(w) ==
    LET ext == WrittenExtent(w)
    IN \E r \in 1..ext.replica_count :
           LET rep == pool'.extents[ext.replica_extents[r]]
           IN phys_write(pool', disk, rep.device_id,
                         rep.device_offset + (w.offset % ExtentCells), w.buf).rc # 0

\* C28: a volume write that succeeds on the primary extent while the write
\* to at least one replica extent fails completes with success, and the pool
\* state becomes Degraded.
ReplicaFailureDegrades ==
    [][(/\ io'.writes = io.writes + 1
        /\ io'.w.rc = 0
        /\ ReplicaWriteFailed(io'.w)) =>
           pool'.state = POOL_STATE_DEGRADED]_allVars

\* The extents the extent maps of the live volumes name (0 stands for an
\* unmapped entry).
Mapped ==
    UNION {{vols[v].extent_map[i] : i \in 1..vols[v].num_extents} : v \in Live} \ {0}

FreeNow == {e \in DOMAIN pool.extents : pool.extents[e].state = EXTENT_FREE}

\* C37: every extent a live volume's extent map refers to is Allocated, and
\* the pool's free-extent counter does not exceed the number of extents that
\* are Free.
MappedStayAllocated ==
    /\ \A e \in Mapped : pool.extents[e].state = EXTENT_ALLOCATED
    /\ pool.free_extents <= Cardinality(FreeNow)

(***************************************************************************)
(* Volumes side by side.  IsolationSpec runs the pool as PoolSpec does and *)
(* also remembers, in io.snaps, which volume was snapshotted from which,   *)
(* something the pool itself keeps no record of.                           *)
(***************************************************************************)
IsolationInit ==
    /\ pool = pool_create
    /\ vols = <<>>
    /\ disk = <<>>
    /\ io = [next_volume_id |-> 1, writes |-> 0, w |-> NoIo, snaps |-> {}]

\* What Created does, and the pair source, snapshot remembered.
Snapshotted(id, c) ==
    /\ pool' = c.p
    /\ vols' = IF c.rc = 0 THEN WithVol(c.vol.id, c.vol) ELSE vols
    /\ io' = [io EXCEPT !.next_volume_id = @ + (IF c.took_id THEN 1 ELSE 0),
                        !.snaps = IF c.rc = 0 THEN @ \cup {<<id, c.vol.id>>} ELSE @]
    /\ UNCHANGED disk

SnapshotOf ==
    \E id \in Live :
        /\ io.next_volume_id <= MaxVolumes
        /\ Snapshotted(id, volume_snapshot(pool, io.next_volume_id, vols[id]))

IsolationNext ==
    \/ PoolAddDevice /\ PoolFrame
    \/ VolumeCreate /\ PoolFrame
    \/ SnapshotOf /\ PoolFrame
    \/ VolumeDestroy /\ PoolFrame
    \/ VolumeWrite /\ PoolFrame

\* One of the two is a snapshot of the other.
SnapshotPair(a, b) == <<a, b>> \in io.snaps \/ <<b, a>> \in io.snaps

\* The ranges a read of volume v can ask for.
ReadRanges(v) ==
    {<<offset, len>> \in (0..(vols[v].size - 1)) \X (1..MaxIoLen) :
        offset + len <= vols[v].size}

block_read_after(id, offset, len) ==
    volume_submit(pool', vols'[id], disk', BLOCK_OP_READ, offset, <<>>, len)

\* C32: a write submitted to one volume does not change the bytes a read of
\* a different live volume returns, unless one is a snapshot of the other.
WriteIsolated ==
    [][(io'.writes = io.writes + 1) =>
          \A v \in Live \ {io'.w.vol} :
              ~SnapshotPair(v, io'.w.vol) =>
                  \A rg \in ReadRanges(v) :
                      block_read(v, rg[1], rg[2]).rc = 0 =>
                          block_read_after(v, rg[1], rg[2]).buf =
                              block_read(v, rg[1], rg[2]).buf]_allVars

POOL_REPL_TRIPLE == 2
MaxExtentVolumes == 4   \* volume ids handed out
MaxAllocCalls == 2      \* pool_alloc_replicated_extent calls

ExtentInit ==
    /\ pool = pool_create
    /\ vols = <<>>
    /\ disk = <<>>
    /\ io = [next_volume_id |-> 1, writes |-> 0, w |-> NoIo,
             alloc |-> [k |-> 0, rc |-> 0, ids |-> <<>>, calls |-> 0]]

ThickCreate ==
    \E size \in VolSizes, replication \in 0..POOL_REPL_TRIPLE :
        /\ io.next_volume_id <= MaxExtentVolumes
        /\ Created(volume_create(pool, io.next_volume_id, size, replication, FALSE))

ThickSnapshot ==
    \E id \in Live :
        /\ io.next_volume_id <= MaxExtentVolumes
        /\ Created(volume_snapshot(pool, io.next_volume_id, vols[id]))

AllocReplicated ==
    \E k \in 0..POOL_REPL_TRIPLE :
        LET a == pool_alloc_replicated_extent(pool, k)
        IN /\ io.alloc.calls < MaxAllocCalls
           /\ pool.state # POOL_STATE_OFFLINE
           /\ pool' = a.p
           /\ io' = [io EXCEPT !.alloc = [k |-> k, rc |-> a.rc, ids |-> a.ids,
                                          calls |-> @.calls + 1]]
           /\ UNCHANGED <<vols, disk>>

ExtentNext ==
    \/ PoolAddDevice /\ PoolFrame
    \/ ThickCreate /\ PoolFrame
    \/ ThickSnapshot /\ PoolFrame
    \/ VolumeDestroy /\ PoolFrame
    \/ AllocReplicated /\ PoolFrame

ExtentIds == DOMAIN pool.extents

\* C21: a pool_alloc_replicated_extent that fails leaves every extent's state,
\* the free-extent counter, and every extent's replica links and replica count
\* as they were before the call.
RollbackRestores ==
    [][(io'.alloc.calls = io.alloc.calls + 1 /\ io'.alloc.rc # 0) =>
          /\ \A e \in ExtentIds : pool'.extents[e].state = pool.extents[e].state
          /\ pool'.free_extents = pool.free_extents
          /\ \A e \in ExtentIds :
                 /\ pool'.extents[e].replica_extents = pool.extents[e].replica_extents
                 /\ pool'.extents[e].replica_count = pool.extents[e].replica_count]_allVars

\* The replicas linked to extent m.
Replicas(p, m) == {p.extents[m].replica_extents[r] : r \in 1..p.extents[m].replica_count}

\* The extents the volumes vs refer to: what their extent maps name, and the
\* replicas linked to those.  An entry 0 is counted as naming extent 0.
Primaries(vs) ==
    UNION {{vs[v].extent_map[i] : i \in 1..vs[v].num_extents} : v \in DOMAIN vs}

Referenced(p, vs) ==
    Primaries(vs) \cup UNION {Replicas(p, m) : m \in Primaries(vs)}

Destroyed == Live' # Live /\ Live' \subseteq Live

CreateRolledBack == io'.next_volume_id = io.next_volume_id + 1 /\ Live' = Live

\* C22: after a volume is destroyed, or a thick volume_create has failed and
\* rolled back, every primary extent of a destroyed volume that the step
\* freed has all its linked replicas Free, and every extent still Allocated is a primary or a replica
\* of an extent that a live volume refers to.
PrimaryFreesReplicas ==
    [][(io'.alloc.calls = 0 /\ (Destroyed \/ CreateRolledBack)) =>
          /\ \A e \in Primaries([v \in Live \ Live' |-> vols[v]]) :
                 (pool.extents[e].state = EXTENT_ALLOCATED
                  /\ pool'.extents[e].state = EXTENT_FREE) =>
                     \A r \in Replicas(pool, e) : pool'.extents[r].state = EXTENT_FREE
          /\ \A e \in ExtentIds :
                 pool'.extents[e].state = EXTENT_ALLOCATED => e \in Referenced(pool', vols')]_allVars

(***************************************************************************)
(* Physical memory manager (src/src/mm/pmm.c).  Addresses are page frame   *)
(* numbers; the memory is PageCount pages, of which the first ReservedEnd  *)
(* hold the kernel image and the page array, and the DMA zone is the first *)
(* DmaPages pages.                                                         *)
(***************************************************************************)
RECURSIVE Pow2(_)
Pow2(k) == IF k = 0 THEN 1 ELSE 2 * Pow2(k - 1)

PMM_MAX_ORDER == 2      \* largest block is 2^PMM_MAX_ORDER pages (11 in pmm.h)
PageCount == 8
DmaPages == Pow2(PMM_MAX_ORDER)   \* 16 MiB boundary, a whole number of largest blocks
ReservedEnd == 2
MaxPmmOps == 8          \* pmm_alloc_pages / pmm_free_pages calls

ZONE_DMA == 0
ZONE_NORMAL == 1
NIL == -1               \* the NULL page pointer

PAGE_FLAG_FREE == "free"
PAGE_FLAG_USED == "present|kernel"
PAGE_FLAG_RESERVED == "reserved"

get_zone(pfn) == IF pfn < DmaPages THEN ZONE_DMA ELSE ZONE_NORMAL

free_list_add(m, z, page, order) ==
    LET head == m.zones[z].heads[order]
        m1 == [m EXCEPT !.pages[page].flags = PAGE_FLAG_FREE,
                        !.pages[page].order = order,
                        !.pages[page].next = head,
                        !.pages[page].prev = NIL]
        m2 == IF head # NIL THEN [m1 EXCEPT !.pages[head].prev = page] ELSE m1
    IN [m2 EXCEPT !.zones[z].heads[order] = page,
                  !.zones[z].counts[order] = @ + 1,
                  !.zones[z].free_pages = @ + Pow2(order)]

free_list_remove_uncounted(m, z, page, order) ==
    LET pg == m.pages[page]
        m1 == IF pg.prev # NIL THEN [m EXCEPT !.pages[pg.prev].next = pg.next]
              ELSE [m EXCEPT !.zones[z].heads[order] = pg.next]
        m2 == IF pg.next # NIL THEN [m1 EXCEPT !.pages[pg.next].prev = pg.prev] ELSE m1
    IN [m2 EXCEPT !.pages[page].next = NIL,
                  !.pages[page].prev = NIL,
                  !.zones[z].counts[order] = @ - 1]

free_list_remove(m, z, page, order) ==
    LET pg == m.pages[page]
        m1 == IF pg.prev # NIL THEN [m EXCEPT !.pages[pg.prev].next = pg.next]
              ELSE [m EXCEPT !.zones[z].heads[order] = pg.next]
        m2 == IF pg.next # NIL THEN [m1 EXCEPT !.pages[pg.next].prev = pg.prev] ELSE m1
    IN [m2 EXCEPT !.pages[page].next = NIL,
                  !.pages[page].prev = NIL,
                  !.zones[z].counts[order] = @ - 1,
                  !.zones[z].free_pages = @ - Pow2(order)]

\* pfn ^ (1 << order), NIL when outside the page array.
get_buddy(page, order) ==
    LET b == IF (page \div Pow2(order)) % 2 = 0 THEN page + Pow2(order)
             ELSE page - Pow2(order)
    IN IF b >= PageCount THEN NIL ELSE b

RECURSIVE pmm_split_block(_, _, _, _, _)
pmm_split_block(m, z, page, cur, target) ==
    IF cur > target
    THEN pmm_split_block(free_list_add(m, z, page + Pow2(cur - 1), cur - 1),
                         z, page, cur - 1, target)
    ELSE m

RECURSIVE coalesce_buddies(_, _, _, _)
coalesce_buddies(m, z, page, order) ==
    LET buddy == get_buddy(page, order)
    IN IF order < PMM_MAX_ORDER /\ buddy # NIL
          /\ m.pages[buddy].flags = PAGE_FLAG_FREE /\ m.pages[buddy].order = order
       THEN coalesce_buddies(free_list_remove(m, z, buddy, order), z,
                             IF buddy < page THEN buddy ELSE page, order + 1)
       ELSE free_list_add(m, z, page, order)

\* The pages are reserved first; every available page from ReservedEnd up is
\* then added as an order-0 block, in address order.
RECURSIVE AddAvailable(_, _)
AddAvailable(m, pfn) ==
    IF pfn >= PageCount THEN m
    ELSE AddAvailable(free_list_add(m, get_zone(pfn), pfn, 0), pfn + 1)

pmm_init ==
    LET m0 == [pages |-> [i \in 0..(PageCount - 1) |->
                            [flags |-> PAGE_FLAG_RESERVED, order |-> 0, next |-> 0,
                             prev |-> 0, refcount |-> 0]],
               zones |-> [z \in {ZONE_DMA, ZONE_NORMAL} |->
                            [heads |-> [o \in 0..PMM_MAX_ORDER |-> NIL],
                             counts |-> [o \in 0..PMM_MAX_ORDER |-> 0],
                             free_pages |-> 0]],
               stats |-> [alloc_count |-> 0, free_count |-> 0,
                          free_memory |-> PageCount - ReservedEnd,
                          used_memory |-> ReservedEnd]]
    IN AddAvailable(m0, ReservedEnd)

\* The (zone, order) pmm_alloc_pages takes its block from: NORMAL before DMA,
\* the smallest order from the requested one up whose list is not empty.
AllocSource(m, order) ==
    LET Fits(z) == {o \in order..PMM_MAX_ORDER : m.zones[z].heads[o] # NIL}
        Least(S) == CHOOSE o \in S : \A q \in S : o <= q
    IN IF Fits(ZONE_NORMAL) # {} THEN <<ZONE_NORMAL, Least(Fits(ZONE_NORMAL))>>
       ELSE IF Fits(ZONE_DMA) # {} THEN <<ZONE_DMA, Least(Fits(ZONE_DMA))>>
       ELSE <<NIL, NIL>>

\* addr 0 is the failure value.
pmm_alloc_pages(m, order) ==
    IF order > PMM_MAX_ORDER THEN [m |-> m, addr |-> 0]
    ELSE LET src == AllocSource(m, order)
         IN IF src[1] = NIL THEN [m |-> m, addr |-> 0]
            ELSE LET z == src[1]
                     o == src[2]
                     page == m.zones[z].heads[o]
                     m1 == free_list_remove(m, z, page, o)
                     m2 == IF o > order THEN pmm_split_block(m1, z, page, o, order) ELSE m1
                 IN [addr |-> page,
                     m |-> [m2 EXCEPT !.pages[page].flags = PAGE_FLAG_USED,
                                      !.pages[page].order = order,
                                      !.pages[page].refcount = 1,
                                      !.stats.alloc_count = @ + 1,
                                      !.stats.free_memory = @ - Pow2(order),
                                      !.stats.used_memory = @ + Pow2(order)]]

pmm_free_pages(m, addr, order) ==
    IF addr = 0 \/ order > PMM_MAX_ORDER THEN m
    ELSE IF addr >= PageCount THEN m
    ELSE IF m.pages[addr].flags = PAGE_FLAG_FREE THEN m
    ELSE coalesce_buddies([m EXCEPT !.stats.free_count = @ + 1,
                                    !.stats.free_memory = @ + Pow2(order),
                                    !.stats.used_memory = @ - Pow2(order)],
                          get_zone(addr), addr, order)

(***************************************************************************)
(* The allocator as a state machine.  pmh.held is the set of allocations   *)
(* returned and not yet freed; pmh.last is the allocation freed by the     *)
(* last call when no allocation has followed; pmh.clean tells that every   *)
(* free so far was of a held allocation, at its order, once; pmh.req and   *)
(* pmh.addr are the order asked of the last pmm_alloc_pages and its result.*)
(***************************************************************************)
PmmInit ==
    /\ pmm = pmm_init
    /\ pmh = [held |-> {}, last |-> <<>>, op |-> "init", ops |-> 0, clean |-> TRUE,
              req |-> 0, addr |-> 0]

PmmAlloc ==
    \E order \in 0..PMM_MAX_ORDER :
        LET a == pmm_alloc_pages(pmm, order)
        IN /\ pmh.ops < MaxPmmOps
           /\ pmm' = a.m
           /\ pmh' = [held |-> IF a.addr = 0 THEN pmh.held
                               ELSE pmh.held \cup {<<a.addr, order>>},
                      last |-> <<>>, op |-> "alloc", ops |-> pmh.ops + 1,
                      clean |-> pmh.clean, req |-> order, addr |-> a.addr]

PmmFree ==
    \E h \in pmh.held :
        /\ pmh.ops < MaxPmmOps
        /\ pmm' = pmm_free_pages(pmm, h[1], h[2])
        /\ pmh' = [held |-> pmh.held \ {h}, last |-> h, op |-> "free",
                   ops |-> pmh.ops + 1, clean |-> pmh.clean,
                   req |-> pmh.req, addr |-> pmh.addr]

\* A second pmm_free_pages of the allocation the last call freed.
PmmFreeAgain ==
    /\ pmh.last # <<>>
    /\ pmh.ops < MaxPmmOps
    /\ pmm' = pmm_free_pages(pmm, pmh.last[1], pmh.last[2])
    /\ pmh' = [pmh EXCEPT !.op = "refree", !.ops = @ + 1, !.clean = FALSE]

PmmNext ==
    \/ PmmAlloc /\ PmmFrame
    \/ PmmFree /\ PmmFrame
    \/ PmmFreeAgain /\ PmmFrame

\* C5: a second free_pages(a, k) right after free_pages(a, k) changes nothing:
\* free lists, page descriptors, per-zone free counts and statistics.
DoubleFreeNoOp ==
    [][pmh'.op = "refree" => pmm' = pmm]_allVars

\* The blocks on the free list of (z, order), walked from the head.
RECURSIVE ListFrom(_, _, _)
ListFrom(m, page, fuel) ==
    IF page = NIL \/ fuel = 0 THEN {}
    ELSE {page} \cup ListFrom(m, m.pages[page].next, fuel - 1)

FreeBlocks(m) ==
    {<<page, o>> : page \in 0..(PageCount - 1), o \in 0..PMM_MAX_ORDER} \cap
    UNION {{<<page, o>> : page \in ListFrom(m, m.zones[z].heads[o], PageCount)} :
              z \in {ZONE_DMA, ZONE_NORMAL}, o \in 0..PMM_MAX_ORDER}

BlockPages(b) == b[1]..(b[1] + Pow2(b[2]) - 1)

FreeSet(m) == UNION {BlockPages(b) : b \in FreeBlocks(m)}

\* pmm_get_free_pages
TotalFree(m) == m.zones[ZONE_DMA].free_pages + m.zones[ZONE_NORMAL].free_pages

RECURSIVE HeldPages(_)
HeldPages(S) ==
    IF S = {} THEN 0
    ELSE LET h == CHOOSE x \in S : TRUE IN Pow2(h[2]) + HeldPages(S \ {h})

InitialFree == ReservedEnd..(PageCount - 1)

\* C13: with every allocation freed at most once at its own order, the free
\* page count is the initial count less the pages of the outstanding
\* allocations (so free_pages(alloc_pages(k), k) restores the count), and once
\* nothing is outstanding the pages on the free lists are the initial ones.
PmmRoundTrip ==
    pmh.clean =>
        /\ TotalFree(pmm) = Cardinality(InitialFree) - HeldPages(pmh.held)
        /\ pmm.stats.free_memory = TotalFree(pmm)
        /\ pmh.held = {} => FreeSet(pmm) = InitialFree

\* Everything has been freed again, and frees have merged buddies.
PmmRoundTripWitness ==
    /\ pmh.clean /\ pmh.op = "free" /\ pmh.held = {}
    /\ \E b \in FreeBlocks(pmm) : b[2] > 0

\* C14: no free block of an order below the largest has its buddy free at the
\* same order.
NoFreeBuddies ==
    pmh.clean =>
        \A b \in FreeBlocks(pmm) :
            b[2] < PMM_MAX_ORDER => <<get_buddy(b[1], b[2]), b[2]>> \notin FreeBlocks(pmm)

\* The naturally aligned runs of 2^order pages all of which are free.
FreeRuns(m, order) ==
    {p \in 0..(PageCount - Pow2(order)) :
        p % Pow2(order) = 0 /\ (p..(p + Pow2(order) - 1)) \subseteq FreeSet(m)}

\* C15: pmm_alloc_pages(k) fails only when no zone holds a free, naturally
\* aligned run of 2^k pages.
AllocFailsOnlyWhenExhausted ==
    [][(pmh.clean /\ pmh'.op = "alloc" /\ pmh'.addr = 0) =>
          FreeRuns(pmm, pmh'.req) = {}]_allVars

(***************************************************************************)
(* Kernel heap (src/src/mm/heap.c).  Addresses and sizes are in bytes; the *)
(* page size is scaled down so that the 16-page initial heap and the       *)
(* 4-page growth block stay small.  A block header lives at the block's    *)
(* address; heap.hdr maps the addresses where a header has been written to *)
(* the header's fields.  Address 0 is NULL.                                *)
(***************************************************************************)
PageGranules == 2       \* PAGE_SIZE in 16-byte units, scaled from 256
MemPages == 32          \* physical memory the PMM hands out
SizeModulus == 4096     \* block_header.size is unsigned: 2^12, scaled from 2^32
MaxHeapOps == 4         \* kmalloc / kfree calls
HEAP_PAGE_SIZE == 16 * PageGranules
MemBytes == MemPages * HEAP_PAGE_SIZE
ReqSizes == {17, 96, 200, 481}

HEAP_MAGIC == "DEADBEEF"
BLOCK_FLAG_FREE == 1
HEADER_SIZE == 32
MIN_BLOCK_SIZE == HEADER_SIZE + 16
NULL == 0

ALIGN_UP(x, a) == ((x + a - 1) \div a) * a

Wrap(x) == x % SizeModulus

Fault(h) == [h EXCEPT !.fault = TRUE]

\* Walk of the address-ordered free list to the insertion point of block; the
\* walk does not end on a cyclic list.
RECURSIVE InsertAfter(_, _, _, _)
InsertAfter(h, curr, block, fuel) ==
    IF fuel = 0 THEN NULL
    ELSE IF h.hdr[curr].next # NULL /\ h.hdr[curr].next < block
         THEN InsertAfter(h, h.hdr[curr].next, block, fuel - 1)
         ELSE curr

heap_free_list_add(h, block) ==
    LET h0 == [h EXCEPT !.hdr[block].flags = BLOCK_FLAG_FREE]
    IN IF h0.free_list = NULL \/ block < h0.free_list
       THEN LET h1 == [h0 EXCEPT !.hdr[block].next = h0.free_list,
                                 !.hdr[block].prev = NULL]
                h2 == IF h0.free_list # NULL
                      THEN [h1 EXCEPT !.hdr[h0.free_list].prev = block] ELSE h1
            IN [h2 EXCEPT !.free_list = block]
       ELSE LET curr == InsertAfter(h0, h0.free_list, block, Cardinality(DOMAIN h0.hdr) + 1)
            IN IF curr = NULL THEN Fault(h0)
               ELSE LET nxt == h0.hdr[curr].next
                        h1 == [h0 EXCEPT !.hdr[block].next = nxt,
                                         !.hdr[block].prev = curr]
                        h2 == IF nxt # NULL THEN [h1 EXCEPT !.hdr[nxt].prev = block] ELSE h1
                    IN [h2 EXCEPT !.hdr[curr].next = block]

heap_free_list_remove(h, block) ==
    LET b == h.hdr[block]
        h1 == IF b.prev # NULL THEN [h EXCEPT !.hdr[b.prev].next = b.next]
              ELSE [h EXCEPT !.free_list = b.next]
        h2 == IF b.next # NULL THEN [h1 EXCEPT !.hdr[b.next].prev = b.prev] ELSE h1
    IN [h2 EXCEPT !.hdr[block].next = NULL,
                  !.hdr[block].prev = NULL,
                  !.hdr[block].flags = 0]

coalesce(h, block) ==
    LET nxt == h.hdr[block].next
        h1 == IF nxt # NULL /\ block + h.hdr[block].size = nxt
                 /\ h.hdr[nxt].flags = BLOCK_FLAG_FREE
              THEN LET nn == h.hdr[nxt].next
                       g == [h EXCEPT !.hdr[block].size = Wrap(@ + h.hdr[nxt].size),
                                      !.hdr[block].next = nn]
                   IN IF nn # NULL THEN [g EXCEPT !.hdr[nn].prev = block] ELSE g
              ELSE h
        prv == h1.hdr[block].prev
    IN IF prv # NULL /\ h1.hdr[prv].flags = BLOCK_FLAG_FREE
          /\ prv + h1.hdr[prv].size = block
       THEN LET bn == h1.hdr[block].next
                g == [h1 EXCEPT !.hdr[prv].size = Wrap(@ + h1.hdr[block].size),
                                !.hdr[prv].next = bn]
            IN IF bn # NULL THEN [g EXCEPT !.hdr[bn].prev = prv] ELSE g
       ELSE h1

\* Best fit over the free list: the first block of the least sufficient size.
RECURSIVE FindFrom(_, _, _, _, _)
FindFrom(h, curr, best, size, fuel) ==
    IF curr = NULL \/ fuel = 0 THEN best
    ELSE LET c == h.hdr[curr]
             better == c.flags = BLOCK_FLAG_FREE /\ c.size >= size
                       /\ (best = NULL \/ c.size < h.hdr[best].size)
         IN IF better /\ c.size = size THEN curr
            ELSE FindFrom(h, c.next, IF better THEN curr ELSE best, size, fuel - 1)

find_free_block(h, size) ==
    FindFrom(h, h.free_list, NULL, size, Cardinality(DOMAIN h.hdr) + 1)

\* Writing a whole header at address a; an address outside memory faults.
WriteHeader(h, a, rec) ==
    IF a >= MemBytes THEN Fault(h)
    ELSE [h EXCEPT !.hdr = [x \in DOMAIN h.hdr \cup {a} |->
                              IF x = a THEN rec ELSE h.hdr[x]]]

\* remaining is a size_t: block->size - size wraps to a huge value, which
\* passes the MIN_BLOCK_SIZE test, when size exceeds block->size.
heap_split_block(h, block, size) ==
    LET bsz == h.hdr[block].size
        splits == IF bsz >= size THEN bsz - size >= MIN_BLOCK_SIZE ELSE TRUE
        new_block == block + size
        bn == h.hdr[block].next
        h1 == WriteHeader(h, new_block,
                          [magic |-> HEAP_MAGIC, size |-> Wrap(bsz - size), flags |-> 0,
                           next |-> bn, prev |-> block])
        h2 == IF bn # NULL THEN [h1 EXCEPT !.hdr[bn].prev = new_block] ELSE h1
        h3 == [h2 EXCEPT !.hdr[block].next = new_block, !.hdr[block].size = size]
    IN IF ~splits THEN h
       ELSE IF h1.fault THEN h1
       ELSE heap_free_list_add(h3, new_block)

\* What pmm_alloc_pages(order) can return to the heap: 0, or the base of a
\* naturally aligned block of 2^order pages none of which is allocated.
PmmGrants(owned, order) ==
    LET bytes == Pow2(order) * HEAP_PAGE_SIZE
        Range(b) == b..(b + bytes - 1)
    IN {0} \cup {b \in 1..(MemBytes - bytes) :
                    b % bytes = 0 /\ \A r \in owned : Range(b) \cap (r[1]..(r[1] + r[2] - 1)) = {}}

heap_init(heap_phys) ==
    LET h0 == [hdr |-> <<>>, free_list |-> NULL, heap_start |-> NULL, heap_end |-> NULL,
               heap_initialized |-> FALSE, fault |-> FALSE,
               heap_stats |-> [alloc_count |-> 0, free_count |-> 0, total_allocated |-> 0,
                               total_freed |-> 0, current_usage |-> 0, peak_usage |-> 0]]
    IN IF heap_phys = 0 THEN h0
       ELSE [h0 EXCEPT !.heap_start = heap_phys,
                       !.heap_end = heap_phys + 16 * HEAP_PAGE_SIZE,
                       !.hdr = [x \in {heap_phys} |->
                                  [magic |-> HEAP_MAGIC, size |-> 16 * HEAP_PAGE_SIZE,
                                   flags |-> BLOCK_FLAG_FREE, next |-> NULL, prev |-> NULL]],
                       !.free_list = heap_phys,
                       !.heap_initialized = TRUE]

\* The tail of kmalloc once block is chosen: unlink, split, account.
Carve(h, block, size) ==
    LET h1 == heap_split_block(heap_free_list_remove(h, block), block, size)
    IN IF h1.fault THEN [h |-> h1, ptr |-> NULL]
       ELSE LET bsz == h1.hdr[block].size
                usage == h1.heap_stats.current_usage + bsz
            IN [ptr |-> block + HEADER_SIZE,
                h |-> [h1 EXCEPT !.hdr[block].flags = 0,
                                 !.heap_stats.alloc_count = @ + 1,
                                 !.heap_stats.total_allocated = @ + bsz,
                                 !.heap_stats.current_usage = usage,
                                 !.heap_stats.peak_usage = IF usage > @ THEN usage ELSE @]]

\* kmalloc(n, 0); new_phys is what pmm_alloc_pages returns if the heap has to
\* grow.  grew tells whether the PMM was asked.
kmalloc(h, n, new_phys) ==
    IF ~h.heap_initialized \/ n = 0 THEN [h |-> h, ptr |-> NULL, grew |-> FALSE]
    ELSE LET sz == ALIGN_UP(n, 16) + HEADER_SIZE
             size == IF sz < MIN_BLOCK_SIZE THEN MIN_BLOCK_SIZE ELSE sz
             block == find_free_block(h, size)
         IN IF block # NULL THEN Carve(h, block, size) @@ [grew |-> FALSE]
            ELSE IF new_phys = 0 THEN [h |-> h, ptr |-> NULL, grew |-> FALSE]
            ELSE LET bytes == Pow2(2) * HEAP_PAGE_SIZE
                     h1 == WriteHeader(h, new_phys,
                                       [magic |-> HEAP_MAGIC, size |-> bytes, flags |-> 0,
                                        next |-> NULL, prev |-> NULL])
                     h2 == heap_free_list_add(h1, new_phys)
                     h3 == IF new_phys + bytes > h2.heap_end
                           THEN [h2 EXCEPT !.heap_end = new_phys + bytes] ELSE h2
                 IN IF h2.fault THEN [h |-> h2, ptr |-> NULL, grew |-> TRUE]
                    ELSE Carve(h3, new_phys, size) @@ [grew |-> TRUE]

kfree_unchecked(h, ptr) ==
    IF ptr = NULL \/ ~h.heap_initialized THEN h
    ELSE LET block == ptr - HEADER_SIZE
         IN IF block \notin DOMAIN h.hdr \/ h.hdr[block].magic # HEAP_MAGIC THEN h
            ELSE LET bsz == h.hdr[block].size
                     h1 == [h EXCEPT !.heap_stats.free_count = @ + 1,
                                     !.heap_stats.total_freed = @ + bsz,
                                     !.heap_stats.current_usage = @ - bsz]
                     h2 == heap_free_list_add(h1, block)
                 IN IF h2.fault THEN h2 ELSE coalesce(h2, block)

kfree(h, ptr) ==
    IF ptr = NULL \/ ~h.heap_initialized THEN h
    ELSE LET block == ptr - HEADER_SIZE
         IN IF block \notin DOMAIN h.hdr \/ h.hdr[block].magic # HEAP_MAGIC THEN h
            ELSE IF h.hdr[block].flags = BLOCK_FLAG_FREE THEN h
            ELSE LET bsz == h.hdr[block].size
                     h1 == [h EXCEPT !.heap_stats.free_count = @ + 1,
                                     !.heap_stats.total_freed = @ + bsz,
                                     !.heap_stats.current_usage = @ - bsz]
                     h2 == heap_free_list_add(h1, block)
                 IN IF h2.fault THEN h2 ELSE coalesce(h2, block)

(***************************************************************************)
(* The heap as a state machine.  hph.live holds the allocations returned   *)
(* and not yet freed, each with the request size n; hph.owned holds the    *)
(* <<base, bytes>> blocks obtained from the PMM; hph.op names the last     *)
(* call and hph.last the pointer it freed.                                 *)
(***************************************************************************)
HeapInit ==
    \E heap_phys \in PmmGrants({}, 4) :
        /\ heap = heap_init(heap_phys)
        /\ hph = [live |-> {}, ops |-> 0, op |-> "init", last |-> NULL,
                  owned |-> IF heap_phys = 0 THEN {}
                            ELSE {<<heap_phys, 16 * HEAP_PAGE_SIZE>>}]

Kmalloc ==
    \E n \in ReqSizes : \E new_phys \in PmmGrants(hph.owned, 2) :
        LET res == kmalloc(heap, n, new_phys)
        IN /\ hph.ops < MaxHeapOps
           /\ ~heap.fault
           /\ heap' = res.h
           /\ hph' = [ops |-> hph.ops + 1, op |-> "kmalloc", last |-> NULL,
                      live |-> IF res.ptr = NULL THEN hph.live
                               ELSE hph.live \cup {[id |-> hph.ops, p |-> res.ptr, n |-> n]},
                      owned |-> IF res.grew
                                THEN hph.owned \cup {<<new_phys, Pow2(2) * HEAP_PAGE_SIZE>>}
                                ELSE hph.owned]

Kfree ==
    \E a \in hph.live :
        /\ hph.ops < MaxHeapOps
        /\ ~heap.fault
        /\ heap' = kfree(heap, a.p)
        /\ hph' = [hph EXCEPT !.ops = @ + 1, !.live = @ \ {a},
                              !.op = "kfree", !.last = a.p]

\* kfree of the pointer the previous call freed.
KfreeAgain ==
    /\ hph.op = "kfree"
    /\ ~heap.fault
    /\ heap' = kfree(heap, hph.last)
    /\ hph' = [hph EXCEPT !.op = "refree"]

HeapNext ==
    \/ Kmalloc /\ HeapFrame
    \/ Kfree /\ HeapFrame
    \/ KfreeAgain /\ HeapFrame

OwnedBytes == UNION {r[1]..(r[1] + r[2] - 1) : r \in hph.owned}

\* C6: the byte ranges [p, p+n) of any two live allocations are disjoint, and
\* each lies inside a heap block, itself inside the heap's memory, whose payload
\* capacity is at least n.
NoAliasing ==
    /\ \A a, b \in hph.live :
          a # b => (a.p..(a.p + a.n - 1)) \cap (b.p..(b.p + b.n - 1)) = {}
    /\ \A a \in hph.live :
          LET block == a.p - HEADER_SIZE
          IN /\ block \in DOMAIN heap.hdr
             /\ heap.hdr[block].size - HEADER_SIZE >= a.n
             /\ (block..(block + heap.hdr[block].size - 1)) \subseteq OwnedBytes

\* C12: a second kfree(p) right after kfree(p) is ignored: the free list, every
\* block header and the heap statistics are as they were before the call.
HeapDoubleFreeNoOp ==
    [][hph'.op = "refree" => heap' = heap]_allVars

\* The second kfree(p) has run on a block that the first kfree merged into the
\* free block before it (its header now lies inside that block).
HeapDoubleFreeWitness ==
    /\ hph.op = "refree"
    /\ \E q \in DOMAIN heap.hdr :
          /\ q < hph.last - HEADER_SIZE
          /\ heap.hdr[q].flags = BLOCK_FLAG_FREE
          /\ q + heap.hdr[q].size > hph.last - HEADER_SIZE

(***************************************************************************)
(* kfree on several CPUs.  kfree reads the block header (magic, flags)     *)
(* before lock_acquire and does the rest between lock_acquire and          *)
(* lock_release; kmalloc runs wholly under the lock.  hph.cpu holds each   *)
(* CPU's position in kfree, hph.heap_lock the lock, hph.live the           *)
(* allocations no kfree has completed on, and hph.done the allocations, in *)
(* order, that a kfree reached free_list_add with.                         *)
(***************************************************************************)
HeapCpus == 2           \* CPUs calling kfree
MaxRaceOps == 4         \* kmalloc / kfree calls

NoAlloc == [id |-> 0, p |-> NULL, n |-> 0]

\* The tests of kfree before lock_acquire: TRUE when the call goes on.
kfree_checks(h, ptr) ==
    /\ ptr # NULL /\ h.heap_initialized
    /\ (ptr - HEADER_SIZE) \in DOMAIN h.hdr
    /\ h.hdr[ptr - HEADER_SIZE].magic = HEAP_MAGIC
    /\ h.hdr[ptr - HEADER_SIZE].flags # BLOCK_FLAG_FREE

\* The rest of kfree, between lock_acquire and lock_release.
Accounted(h, block) ==
    [h EXCEPT !.heap_stats.free_count = @ + 1,
              !.heap_stats.total_freed = @ + h.hdr[block].size,
              !.heap_stats.current_usage = @ - h.hdr[block].size]

Relinked(h, block) == IF h.fault THEN h ELSE coalesce(h, block)

kfree_locked(h, block) == Relinked(heap_free_list_add(Accounted(h, block), block), block)

RaceInit ==
    \E heap_phys \in PmmGrants({}, 4) \ {0} :
        /\ heap = heap_init(heap_phys)
        /\ hph = [live |-> {}, ops |-> 0, heap_lock |-> 0, done |-> <<>>,
                  cpu |-> [c \in 1..HeapCpus |-> [pc |-> "idle", a |-> NoAlloc]]]

\* kmalloc without heap growth (pmm_alloc_pages returns 0).
RaceKmalloc ==
    \E n \in ReqSizes :
        /\ hph.ops < MaxRaceOps
        /\ hph.heap_lock = 0
        /\ ~heap.fault
        /\ heap' = kmalloc(heap, n, 0).h
        /\ hph' = [hph EXCEPT
                     !.ops = @ + 1,
                     !.live = IF kmalloc(heap, n, 0).ptr = NULL THEN @
                              ELSE @ \cup {[id |-> hph.ops + 1,
                                            p |-> kmalloc(heap, n, 0).ptr, n |-> n]}]

\* kfree(a.p) up to lock_acquire.
KfreeCheck(c) ==
    \E a \in hph.live :
        /\ hph.cpu[c].pc = "idle"
        /\ hph.ops < MaxRaceOps
        /\ ~heap.fault
        /\ heap' = heap
        /\ hph' = [hph EXCEPT !.ops = @ + 1,
                              !.cpu[c] = IF kfree_checks(heap, a.p)
                                         THEN [pc |-> "acquire", a |-> a]
                                         ELSE [pc |-> "idle", a |-> NoAlloc]]

KfreeAcquire(c) ==
    /\ hph.cpu[c].pc = "acquire"
    /\ hph.heap_lock = 0
    /\ heap' = heap
    /\ hph' = [hph EXCEPT !.heap_lock = 1, !.cpu[c].pc = "held"]

\* The statistics, free_list_add, coalesce and lock_release.
KfreeRelease(c) ==
    /\ hph.cpu[c].pc = "held"
    /\ ~heap.fault
    /\ heap' = kfree_locked(heap, hph.cpu[c].a.p - HEADER_SIZE)
    /\ hph' = [hph EXCEPT !.heap_lock = 0,
                          !.cpu[c] = [pc |-> "idle", a |-> NoAlloc],
                          !.live = @ \ {hph.cpu[c].a},
                          !.done = Append(@, hph.cpu[c].a.id)]

RaceNext ==
    \/ RaceKmalloc /\ HeapFrame
    \/ (\E c \in 1..HeapCpus : KfreeCheck(c)) /\ HeapFrame
    \/ (\E c \in 1..HeapCpus : KfreeAcquire(c)) /\ HeapFrame
    \/ (\E c \in 1..HeapCpus : KfreeRelease(c)) /\ HeapFrame

\* C39: with kfree called on the same pointer from two CPUs, the block is
\* put on the free list at most once and the statistics are adjusted at most
\* once.
FreedAtMostOnce ==
    /\ \A i, j \in DOMAIN hph.done : i # j => hph.done[i] # hph.done[j]
    /\ heap.heap_stats.free_count <= Cardinality({hph.done[i] : i \in DOMAIN hph.done})

(***************************************************************************)
(* Cluster nodes, VM manager and scheduler (src/src/cluster/node.c, vm.c,  *)
(* scheduler.c).  A node is named by its id; cl.list is the cluster's node *)
(* list and cl.vmlist the manager's VM list, head first.  Memory sizes are *)
(* in GiB.  uint32_t and uint64_t arithmetic wraps modulo U32 and U64.     *)
(***************************************************************************)
U32 == 16384            \* 2^14, scaled from 2^32
U64 == 1048576          \* 2^20, scaled from 2^64
NodeCount == 3
MaxVms == 2
MaxVmOps == 4           \* calls into the VM manager
MaxNodeOps == 1         \* node state changes and health checks
MaxSchedOps == 1        \* calls into the scheduler

VM_STATE_CREATED == 0
VM_STATE_STARTING == 1
VM_STATE_RUNNING == 2
VM_STATE_PAUSED == 3
VM_STATE_STOPPING == 4
VM_STATE_STOPPED == 5
VM_STATE_MIGRATING == 6
VM_STATE_ERROR == 7

NODE_STATE_ONLINE == 2
NODE_STATE_OFFLINE == 4
NODE_STATE_FAILED == 6

SCHED_POLICY_SPREAD == 0
SCHED_POLICY_PACK == 1
SCHED_POLICY_RANDOM == 2

WEIGHT_CPU == 40
WEIGHT_MEMORY == 40
WEIGHT_STORAGE == 10
WEIGHT_NETWORK == 10

NoNode == 0             \* the NULL node pointer

W32(x) == x % U32
W64(x) == x % U64

NodeIds == 1..NodeCount

\* Every vm_set_state call is logged as <<vm, old_state, state>>.
vm_set_state(c, vm, state) ==
    [c EXCEPT !.vms[vm].state = state,
              !.log = Append(@, <<vm, c.vms[vm].state, state>>)]

NodeVmCountInc(c, n) == IF n = NoNode THEN c ELSE [c EXCEPT !.nodes[n].vm_count = W32(@ + 1)]
NodeVmCountDec(c, n) == IF n = NoNode THEN c ELSE [c EXCEPT !.nodes[n].vm_count = W32(@ - 1)]

virt_vm_create(c, config, allocOk) ==
    IF ~allocOk THEN c
    ELSE LET id == c.next_vm_id
         IN [c EXCEPT !.next_vm_id = W32(@ + 1),
                      !.vms = [v \in DOMAIN c.vms \cup {id} |->
                                 IF v = id
                                 THEN [state |-> VM_STATE_CREATED, host_node |-> c.local_node,
                                       vcpus |-> config.vcpus, memory |-> config.memory]
                                 ELSE c.vms[v]],
                      !.vmlist = <<id>> \o @,
                      !.vm_count = W32(@ + 1)]

virt_vm_start(c, vm) ==
    IF c.vms[vm].state # VM_STATE_CREATED /\ c.vms[vm].state # VM_STATE_STOPPED
    THEN [c |-> c, rc |-> -1]
    ELSE LET c1 == vm_set_state(vm_set_state(c, vm, VM_STATE_STARTING), vm, VM_STATE_RUNNING)
             c2 == [c1 EXCEPT !.running_count = W32(@ + 1)]
         IN [c |-> NodeVmCountInc(c2, c.local_node), rc |-> 0]

virt_vm_stop(c, vm) ==
    IF c.vms[vm].state # VM_STATE_RUNNING /\ c.vms[vm].state # VM_STATE_PAUSED
    THEN [c |-> c, rc |-> -1]
    ELSE LET c1 == vm_set_state(vm_set_state(c, vm, VM_STATE_STOPPING), vm, VM_STATE_STOPPED)
             c2 == [c1 EXCEPT !.running_count = W32(@ - 1)]
         IN [c |-> NodeVmCountDec(c2, c.local_node), rc |-> 0]

virt_vm_force_stop(c, vm) ==
    LET st == c.vms[vm].state
    IN IF st = VM_STATE_STOPPED \/ st = VM_STATE_CREATED THEN [c |-> c, rc |-> 0]
       ELSE LET c1 == IF st = VM_STATE_RUNNING \/ st = VM_STATE_PAUSED
                      THEN NodeVmCountDec([c EXCEPT !.running_count = W32(@ - 1)],
                                          c.local_node)
                      ELSE c
            IN [c |-> vm_set_state(c1, vm, VM_STATE_STOPPED), rc |-> 0]

\* virt_vm_pause without its state check.
virt_vm_pause_unchecked(c, vm) ==
    [c |-> vm_set_state(c, vm, VM_STATE_PAUSED), rc |-> 0]

virt_vm_pause(c, vm) ==
    IF c.vms[vm].state # VM_STATE_RUNNING THEN [c |-> c, rc |-> -1]
    ELSE [c |-> vm_set_state(c, vm, VM_STATE_PAUSED), rc |-> 0]

virt_vm_resume(c, vm) ==
    IF c.vms[vm].state # VM_STATE_PAUSED THEN [c |-> c, rc |-> -1]
    ELSE [c |-> vm_set_state(c, vm, VM_STATE_RUNNING), rc |-> 0]

virt_vm_restart(c, vm) ==
    LET st == virt_vm_stop(c, vm)
        c1 == IF st.rc # 0 THEN virt_vm_force_stop(st.c, vm).c ELSE st.c
    IN virt_vm_start(c1, vm)

virt_vm_destroy(c, vm) ==
    LET c1 == IF c.vms[vm].state = VM_STATE_RUNNING \/ c.vms[vm].state = VM_STATE_PAUSED
              THEN virt_vm_force_stop(c, vm).c ELSE c
    IN [c1 EXCEPT !.vmlist = SelectSeq(@, LAMBDA v : v # vm),
                  !.vm_count = W32(@ - 1),
                  !.vms = [v \in DOMAIN c1.vms \ {vm} |-> c1.vms[v]]]

virt_vm_can_migrate(c, vm) ==
    c.vms[vm].state = VM_STATE_RUNNING \/ c.vms[vm].state = VM_STATE_PAUSED

virt_vm_migrate(c, vm, target_node) ==
    IF target_node = NoNode THEN [c |-> c, rc |-> -1]
    ELSE IF ~virt_vm_can_migrate(c, vm) THEN [c |-> c, rc |-> -1]
    ELSE IF c.vms[vm].host_node = target_node THEN [c |-> c, rc |-> 0]
    ELSE LET prev_state == c.vms[vm].state
             host == c.vms[vm].host_node
             c1 == vm_set_state(c, vm, VM_STATE_MIGRATING)
             c2 == IF host # NoNode
                   THEN [NodeVmCountDec(c1, host) EXCEPT
                            !.nodes[host].total_migrations = W64(@ + 1)]
                   ELSE c1
             c3 == NodeVmCountInc([c2 EXCEPT !.vms[vm].host_node = target_node], target_node)
         IN [c |-> vm_set_state(c3, vm, prev_state), rc |-> 0]

node_has_tag(c, n, tag) == tag \in c.nodes[n].tags

\* available_vcpus is a uint64_t from which the uint32_t product vm_count * 2 is
\* subtracted; available_mem likewise.
node_is_feasible(c, n, req) ==
    LET node == c.nodes[n]
        scaled == IF c.sched.enable_overcommit
                  THEN W64(node.total_threads * c.sched.cpu_overcommit_ratio) \div 100
                  ELSE node.total_threads
        available_vcpus == W64(scaled - W32(node.vm_count * 2))
        available_mem == IF c.sched.enable_overcommit
                         THEN W64((W64(node.mem_total * c.sched.memory_overcommit_ratio) \div 100)
                                  - node.mem_used)
                         ELSE node.mem_free
    IN /\ node.state = NODE_STATE_ONLINE
       /\ node.health_score >= 50
       /\ n \notin req.forbidden_nodes
       /\ \A t \in req.required_tags : node_has_tag(c, n, t)
       /\ ~(req.vcpus > available_vcpus)
       /\ ~(req.memory > available_mem)

scheduler_score_node(c, n, req) ==
    LET node == c.nodes[n]
        feasible == node_is_feasible(c, n, req)
        total_cpu == node.total_threads
        used_cpu == W32(node.vm_count * 2)
        cpu_score == IF total_cpu > 0
                     THEN W32(W64(W64(total_cpu - used_cpu) * 100) \div total_cpu) ELSE 0
        memory_score == IF node.mem_total > 0
                        THEN W32(W64(node.mem_free * 100) \div node.mem_total) ELSE 0
        storage_score == IF node.sto_total > 0
                         THEN W32(W64(node.sto_free * 100) \div node.sto_total) ELSE 100
        network_score == IF node.network_healthy THEN 100 ELSE 0
        Hosted(ids) == Cardinality({v \in ids : v \in DOMAIN c.vms /\ c.vms[v].host_node = n})
        aff == 50 + 25 * Hosted(req.affinity_vm_ids)
        anti == IF Hosted(req.anti_affinity_vm_ids) = 0 THEN aff
                ELSE IF aff - 50 * Hosted(req.anti_affinity_vm_ids) >= 0
                     THEN aff - 50 * Hosted(req.anti_affinity_vm_ids) ELSE 0
        affinity_score == IF anti > 100 THEN 100 ELSE anti
        weighted == W32(W32(cpu_score * WEIGHT_CPU + memory_score * WEIGHT_MEMORY
                            + storage_score * WEIGHT_STORAGE + network_score * WEIGHT_NETWORK)
                        \div 100)
        total_score == IF req.policy = SCHED_POLICY_PACK THEN W32(100 - weighted) ELSE weighted
    IN IF ~feasible
       THEN [node |-> n, feasible |-> FALSE, total_score |-> 0, cpu_score |-> 0,
             memory_score |-> 0, storage_score |-> 0, network_score |-> 0,
             affinity_score |-> 0]
       ELSE [node |-> n, feasible |-> TRUE, total_score |-> total_score,
             cpu_score |-> cpu_score, memory_score |-> memory_score,
             storage_score |-> storage_score, network_score |-> network_score,
             affinity_score |-> affinity_score]

\* The first feasible entry with the greatest total_score; 0 when none.
RECURSIVE BestFrom(_, _, _)
BestFrom(scores, i, best) ==
    IF i > Len(scores) THEN best
    ELSE BestFrom(scores, i + 1,
                  IF scores[i].feasible
                     /\ (best = 0 \/ scores[i].total_score > scores[best].total_score)
                  THEN i ELSE best)

NoResult ==
    [success |-> FALSE, selected_node |-> NoNode, score |-> 0, alternatives |-> <<>>]

scheduler_schedule(c, req, allocOk) ==
    IF c.node_count = 0
    THEN [c |-> [c EXCEPT !.sched.failed_placements = W64(@ + 1)], rc |-> -1,
          result |-> NoResult]
    ELSE IF ~allocOk THEN [c |-> c, rc |-> -1, result |-> NoResult]
    ELSE LET scores == [i \in 1..Len(c.list) |-> scheduler_score_node(c, c.list[i], req)]
             best == BestFrom(scores, 1, 0)
             others == SelectSeq([i \in 1..Len(scores) |-> i],
                                 LAMBDA i : scores[i].feasible /\ i # best)
             alts == [k \in 1..(IF Len(others) < 3 THEN Len(others) ELSE 3) |->
                        scores[others[k]].node]
         IN IF best # 0
            THEN [c |-> [c EXCEPT !.sched.total_placements = W64(@ + 1)], rc |-> 0,
                  result |-> [success |-> TRUE, selected_node |-> scores[best].node,
                              score |-> scores[best].total_score, alternatives |-> alts]]
            ELSE [c |-> [c EXCEPT !.sched.failed_placements = W64(@ + 1)], rc |-> -1,
                  result |-> NoResult]

\* The request scheduler_evacuate_node builds for vm: zeroed but for the VM's
\* size and the evacuated node as the one forbidden node.
EvacuationRequest(c, vm, n) ==
    [vcpus |-> c.vms[vm].vcpus, memory |-> c.vms[vm].memory, policy |-> SCHED_POLICY_SPREAD,
     required_tags |-> {}, forbidden_nodes |-> {n},
     affinity_vm_ids |-> {}, anti_affinity_vm_ids |-> {}]

\* The loop over the manager's VM list from position i; noMem is the set of VMs
\* for which the scheduler's kmalloc of the score array fails.
RECURSIVE EvacuateFrom(_, _, _, _)
EvacuateFrom(c, i, n, noMem) ==
    IF i > Len(c.vmlist) THEN c
    ELSE LET vm == c.vmlist[i]
         IN IF c.vms[vm].host_node # n THEN EvacuateFrom(c, i + 1, n, noMem)
            ELSE LET s == scheduler_schedule(c, EvacuationRequest(c, vm, n), vm \notin noMem)
                     c1 == IF s.rc = 0
                           THEN [virt_vm_migrate(s.c, vm, s.result.selected_node).c EXCEPT
                                    !.sched.migrations_triggered = W64(@ + 1)]
                           ELSE s.c
                 IN EvacuateFrom(c1, i + 1, n, noMem)

scheduler_evacuate_node(c, n, noMem) == EvacuateFrom(c, 1, n, noMem)

\* First node of the list, among the online ones, with the most / fewest VMs.
RECURSIVE Extreme(_, _, _, _)
Extreme(c, i, best, most) ==
    IF i > Len(c.list) THEN best
    ELSE LET n == c.list[i]
             cnt == c.nodes[n].vm_count
             better == c.nodes[n].state = NODE_STATE_ONLINE
                       /\ IF most
                          THEN cnt > (IF best = NoNode THEN 0 ELSE c.nodes[best].vm_count)
                          ELSE cnt < (IF best = NoNode THEN U32 - 1 ELSE c.nodes[best].vm_count)
         IN Extreme(c, i + 1, IF better THEN n ELSE best, most)

scheduler_rebalance(c) ==
    LET overloaded == Extreme(c, 1, NoNode, TRUE)
        underloaded == Extreme(c, 1, NoNode, FALSE)
        cand == SelectSeq(c.vmlist, LAMBDA v : c.vms[v].host_node = overloaded
                                               /\ virt_vm_can_migrate(c, v))
    IN IF \A n \in NodeIds : c.nodes[n].state # NODE_STATE_ONLINE THEN c
       ELSE IF overloaded # NoNode /\ underloaded # NoNode
               /\ c.nodes[overloaded].vm_count > W32(c.nodes[underloaded].vm_count + 2)
               /\ Len(cand) > 0
       THEN [virt_vm_migrate(c, cand[1], underloaded).c EXCEPT
                !.sched.migrations_triggered = W64(@ + 1)]
       ELSE c

node_set_state(c, n, state) == [c EXCEPT !.nodes[n].state = state]

\* cpu, storage and network are always found healthy; memory when free_bytes > 0.
node_health_check(c, n) ==
    LET memory_healthy == c.nodes[n].mem_free > 0
    IN [c EXCEPT !.nodes[n].network_healthy = TRUE,
                 !.nodes[n].health_score = IF memory_healthy THEN 100 ELSE 75]

(***************************************************************************)
(* The cluster as a state machine: NodeCount nodes created and added to    *)
(* the cluster (each added at the head of the list), the VM manager of     *)
(* node 1, and the scheduler over both.  cl.log is the vm_set_state calls  *)
(* of the last operation.                                                  *)
(***************************************************************************)
NodeShapes ==
    {[total_threads |-> 1, mem_total |-> 4, mem_free |-> 4],
     [total_threads |-> 4, mem_total |-> 4, mem_free |-> 0]}

Tags == {"ssd"}
VmConfigs == {[vcpus |-> 2, memory |-> 1]}

Constraints ==
    {[required_tags |-> {}, forbidden_nodes |-> {}],
     [required_tags |-> Tags, forbidden_nodes |-> {}],
     [required_tags |-> {}, forbidden_nodes |-> {1}]}

Requests ==
    {[vcpus |-> 2, memory |-> m, policy |-> p, required_tags |-> k.required_tags,
      forbidden_nodes |-> k.forbidden_nodes, affinity_vm_ids |-> {},
      anti_affinity_vm_ids |-> {}] :
        m \in {1, 8}, p \in {SCHED_POLICY_SPREAD, SCHED_POLICY_PACK, SCHED_POLICY_RANDOM},
        k \in Constraints}

NoRequest ==
    [vcpus |-> 0, memory |-> 0, policy |-> SCHED_POLICY_SPREAD, required_tags |-> {},
     forbidden_nodes |-> {}, affinity_vm_ids |-> {}, anti_affinity_vm_ids |-> {}]

\* node_create, node_add_tag and the resources reported for the node, then
\* cluster_add_node, which leaves the node Online.
node_create(n, shape) ==
    [state |-> NODE_STATE_ONLINE, health_score |-> 100, network_healthy |-> FALSE,
     tags |-> IF n = 1 THEN Tags ELSE {},
     total_threads |-> shape.total_threads, mem_total |-> shape.mem_total,
     mem_free |-> shape.mem_free, mem_used |-> shape.mem_total - shape.mem_free,
     sto_total |-> 0, sto_free |-> 0, vm_count |-> 0, total_migrations |-> 0]

scheduler_init ==
    [enable_overcommit |-> TRUE, cpu_overcommit_ratio |-> 200,
     memory_overcommit_ratio |-> 150, total_placements |-> 0, failed_placements |-> 0,
     migrations_triggered |-> 0]

NoHist ==
    [op |-> "init", vmops |-> 0, nodeops |-> 0, schedops |-> 0, vm |-> 0, before |-> 0, rc |-> 0, node |-> NoNode,
     hosted |-> {}, req |-> NoRequest, result |-> NoResult, nomem |-> FALSE]

ClusterInit ==
    \E shapes \in [NodeIds -> NodeShapes] :
        /\ cl = [nodes |-> [n \in NodeIds |-> node_create(n, shapes[n])],
                 list |-> [i \in 1..NodeCount |-> NodeCount + 1 - i],
                 node_count |-> NodeCount,
                 vms |-> <<>>, vmlist |-> <<>>, vm_count |-> 0, running_count |-> 0,
                 next_vm_id |-> 1, local_node |-> 1,
                 sched |-> scheduler_init, log |-> <<>>]
        /\ clh = NoHist

Begin == [cl EXCEPT !.log = <<>>]

Vms == DOMAIN cl.vms

CanVmOp == clh.vmops < MaxVmOps
CanNodeOp == clh.nodeops < MaxNodeOps
CanSchedOp == clh.schedops < MaxSchedOps

Counted(op) ==
    [NoHist EXCEPT !.op = op, !.vmops = clh.vmops, !.nodeops = clh.nodeops,
                   !.schedops = clh.schedops]

VmOpDone(op) == [Counted(op) EXCEPT !.vmops = @ + 1]
NodeOpDone(op) == [Counted(op) EXCEPT !.nodeops = @ + 1]
SchedOpDone(op) == [Counted(op) EXCEPT !.schedops = @ + 1]

VmDone(op, vm, rc) ==
    [VmOpDone(op) EXCEPT !.vm = vm, !.before = cl.vms[vm].state, !.rc = rc]

VmCreate ==
    \E config \in VmConfigs : \E allocOk \in BOOLEAN :
        /\ CanVmOp
        /\ Cardinality(Vms) < MaxVms
        /\ cl' = virt_vm_create(Begin, config, allocOk)
        /\ clh' = VmOpDone("create")

VmStart ==
    \E vm \in Vms : LET r == virt_vm_start(Begin, vm)
                    IN CanVmOp /\ cl' = r.c /\ clh' = VmDone("start", vm, r.rc)

VmStop ==
    \E vm \in Vms : LET r == virt_vm_stop(Begin, vm)
                    IN CanVmOp /\ cl' = r.c /\ clh' = VmDone("stop", vm, r.rc)

VmForceStop ==
    \E vm \in Vms : LET r == virt_vm_force_stop(Begin, vm)
                    IN CanVmOp /\ cl' = r.c /\ clh' = VmDone("force_stop", vm, r.rc)

VmPause ==
    \E vm \in Vms : LET r == virt_vm_pause(Begin, vm)
                    IN CanVmOp /\ cl' = r.c /\ clh' = VmDone("pause", vm, r.rc)

VmResume ==
    \E vm \in Vms : LET r == virt_vm_resume(Begin, vm)
                    IN CanVmOp /\ cl' = r.c /\ clh' = VmDone("resume", vm, r.rc)

VmRestart ==
    \E vm \in Vms : LET r == virt_vm_restart(Begin, vm)
                    IN CanVmOp /\ cl' = r.c /\ clh' = VmDone("restart", vm, r.rc)

VmMigrate ==
    \E vm \in Vms : \E target \in NodeIds :
        LET r == virt_vm_migrate(Begin, vm, target)
        IN CanVmOp /\ cl' = r.c /\ clh' = VmDone("migrate", vm, r.rc)

VmDestroy ==
    \E vm \in Vms :
        CanVmOp /\ cl' = virt_vm_destroy(Begin, vm) /\ clh' = VmOpDone("destroy")

Schedule ==
    \E req \in Requests : \E allocOk \in BOOLEAN :
        LET r == scheduler_schedule(Begin, req, allocOk)
        IN /\ CanSchedOp
           /\ cl' = r.c
           /\ clh' = [SchedOpDone("schedule") EXCEPT !.req = req, !.result = r.result,
                                                     !.rc = r.rc, !.nomem = ~allocOk]

Hosted(n) == {v \in Vms : cl.vms[v].host_node = n}

Evacuate ==
    \E n \in NodeIds : \E noMem \in SUBSET Hosted(n) :
        /\ CanSchedOp
        /\ cl' = scheduler_evacuate_node(Begin, n, noMem)
        /\ clh' = [SchedOpDone("evacuate") EXCEPT !.node = n, !.hosted = Hosted(n)]

Rebalance ==
    CanSchedOp /\ cl' = scheduler_rebalance(Begin) /\ clh' = SchedOpDone("rebalance")

NodeSetState ==
    \E n \in NodeIds : \E st \in {NODE_STATE_ONLINE, NODE_STATE_OFFLINE, NODE_STATE_FAILED} :
        /\ CanNodeOp
        /\ cl.nodes[n].state # st
        /\ cl' = node_set_state(Begin, n, st)
        /\ clh' = NodeOpDone("node_set_state")

NodeHealthCheck ==
    \E n \in NodeIds :
        CanNodeOp /\ cl' = node_health_check(Begin, n) /\ clh' = NodeOpDone("node_health_check")

ClusterNext ==
    \/ VmCreate /\ ClusterFrame
    \/ VmStart /\ ClusterFrame
    \/ VmStop /\ ClusterFrame
    \/ VmForceStop /\ ClusterFrame
    \/ VmPause /\ ClusterFrame
    \/ VmResume /\ ClusterFrame
    \/ VmRestart /\ ClusterFrame
    \/ VmMigrate /\ ClusterFrame
    \/ VmDestroy /\ ClusterFrame
    \/ Schedule /\ ClusterFrame
    \/ Evacuate /\ ClusterFrame
    \/ Rebalance /\ ClusterFrame
    \/ NodeSetState /\ ClusterFrame
    \/ NodeHealthCheck /\ ClusterFrame

\* The filters as the specification states them, over the integers.
TrueAvailableVcpus(n) ==
    (IF cl.sched.enable_overcommit
     THEN (cl.nodes[n].total_threads * cl.sched.cpu_overcommit_ratio) \div 100
     ELSE cl.nodes[n].total_threads) - 2 * cl.nodes[n].vm_count

TrueAvailableMem(n) ==
    IF cl.sched.enable_overcommit
    THEN (cl.nodes[n].mem_total * cl.sched.memory_overcommit_ratio) \div 100
         - cl.nodes[n].mem_used
    ELSE cl.nodes[n].mem_free

\* C7: when scheduler_schedule reports success the selected node is Online, has
\* health score >= 50, is not forbidden, carries every required tag, and has
\* available vCPUs (as a true arithmetic difference) and available memory at
\* least equal to the requested amounts.
SelectedIsFeasible ==
    (clh.op = "schedule" /\ clh.result.success) =>
        LET n == clh.result.selected_node
        IN /\ n \in NodeIds
           /\ cl.nodes[n].state = NODE_STATE_ONLINE
           /\ cl.nodes[n].health_score >= 50
           /\ n \notin clh.req.forbidden_nodes
           /\ clh.req.required_tags \subseteq cl.nodes[n].tags
           /\ TrueAvailableVcpus(n) >= clh.req.vcpus
           /\ TrueAvailableMem(n) >= clh.req.memory

\* C8: after scheduler_evacuate_node(n) no VM has host_node n, and every VM that
\* n hosted before the call has another host or is in state Error.
EvacuationComplete ==
    clh.op = "evacuate" =>
        /\ \A v \in Vms : cl.vms[v].host_node # clh.node
        /\ \A v \in clh.hosted :
              v \in Vms /\ (cl.vms[v].host_node # clh.node \/ cl.vms[v].state = VM_STATE_ERROR)

\* The Running or Paused VMs whose host_node is n.
ActiveOn(n) ==
    {v \in Hosted(n) : cl.vms[v].state \in {VM_STATE_RUNNING, VM_STATE_PAUSED}}

\* C33: the vm_count of every node equals the number of Running or Paused VMs
\* whose host_node is that node (so no vm_count has wrapped below zero).
VmCountMatchesHosted ==
    \A n \in DOMAIN cl.nodes : cl.nodes[n].vm_count = Cardinality(ActiveOn(n))

VmStates == VM_STATE_CREATED..VM_STATE_ERROR

\* The lifecycle graph of the specification; start from Stopped is the edge
\* Stopped -> Starting.  The return from Migrating is checked by ReturnsToPrior.
LifecycleEdges ==
    {<<VM_STATE_CREATED, VM_STATE_STARTING>>, <<VM_STATE_STOPPED, VM_STATE_STARTING>>,
     <<VM_STATE_STARTING, VM_STATE_RUNNING>>,
     <<VM_STATE_RUNNING, VM_STATE_PAUSED>>, <<VM_STATE_PAUSED, VM_STATE_RUNNING>>,
     <<VM_STATE_RUNNING, VM_STATE_STOPPING>>, <<VM_STATE_STOPPING, VM_STATE_STOPPED>>}
    \cup {<<st, VM_STATE_MIGRATING>> : st \in VmStates}
    \cup {<<VM_STATE_MIGRATING, st>> : st \in VmStates}
    \cup {<<st, VM_STATE_ERROR>> : st \in VmStates}

\* stop of a paused VM, and force_stop, which skips Stopping.
StopEdges ==
    {<<VM_STATE_PAUSED, VM_STATE_STOPPING>>, <<VM_STATE_RUNNING, VM_STATE_STOPPED>>,
     <<VM_STATE_PAUSED, VM_STATE_STOPPED>>}

FollowsEdges(edges) ==
    \A i \in 1..Len(cl.log) : <<cl.log[i][2], cl.log[i][3]>> \in edges

ReturnsToPrior ==
    \A i \in 1..Len(cl.log) :
        cl.log[i][2] = VM_STATE_MIGRATING =>
            i > 1 /\ cl.log[i - 1][3] = VM_STATE_MIGRATING /\ cl.log[i - 1][1] = cl.log[i][1]
            /\ cl.log[i - 1][2] = cl.log[i][3]

Preconditions ==
    /\ (clh.op = "start" /\ clh.rc = 0) => clh.before \in {VM_STATE_CREATED, VM_STATE_STOPPED}
    /\ (clh.op = "pause" /\ clh.rc = 0) => clh.before = VM_STATE_RUNNING
    /\ (clh.op = "resume" /\ clh.rc = 0) => clh.before = VM_STATE_PAUSED
    /\ (clh.op \in {"start", "stop", "pause", "resume", "restart", "migrate"} /\ clh.rc # 0) =>
          cl.log = <<>> /\ cl.vms[clh.vm].state = clh.before

\* C9 as stated: every VM state change follows an edge of Created -> Starting ->
\* Running <-> Paused, Running -> Stopping -> Stopped, any -> Migrating -> prior
\* state, any -> Error; start succeeds only from Created or Stopped, pause only
\* from Running, resume only from Paused; a rejected operation changes nothing.
LifecycleAsStated ==
    FollowsEdges(LifecycleEdges) /\ ReturnsToPrior /\ Preconditions

\* C9, amended: as stated, with the edges Paused -> Stopping (stop of a paused
\* VM) and Running -> Stopped, Paused -> Stopped (force_stop) added to the graph.
LifecycleAmended ==
    FollowsEdges(LifecycleEdges \cup StopEdges) /\ ReturnsToPrior /\ Preconditions

\* A paused VM has been stopped, and a migration has returned to its prior state.
LifecycleWitness ==
    /\ clh.op = "stop" /\ clh.rc = 0 /\ clh.before = VM_STATE_PAUSED
    /\ cl.log = <<<<clh.vm, VM_STATE_PAUSED, VM_STATE_STOPPING>>,
                  <<clh.vm, VM_STATE_STOPPING, VM_STATE_STOPPED>>>>

(***************************************************************************)
(* Placement over a prepared cluster: NodeCount Online nodes with the same *)
(* resources, each hosting up to MaxHostedVms VMs (vm_count is moved by    *)
(* virt_vm_start, virt_vm_stop and virt_vm_migrate), on which              *)
(* scheduler_schedule is run once.                                         *)
(***************************************************************************)
MaxHostedVms == 3

PlacementShapes ==
    {[total_threads |-> t, mem_total |-> 4, mem_free |-> f] : t \in {3, 4, 8}, f \in {0, 4}}

PlacementInit ==
    \E shape \in PlacementShapes : \E counts \in [NodeIds -> 0..MaxHostedVms] :
        /\ cl = [nodes |-> [n \in NodeIds |->
                              [node_create(n, shape) EXCEPT !.vm_count = counts[n]]],
                 list |-> [i \in 1..NodeCount |-> NodeCount + 1 - i],
                 node_count |-> NodeCount,
                 vms |-> <<>>, vmlist |-> <<>>, vm_count |-> 0, running_count |-> 0,
                 next_vm_id |-> 1, local_node |-> 1,
                 sched |-> scheduler_init, log |-> <<>>]
        /\ clh = NoHist

PlacementNext == Schedule /\ ClusterFrame

\* The filters of node_is_feasible, with the capacities as true differences.
TrulyFeasible(n, req) ==
    /\ cl.nodes[n].state = NODE_STATE_ONLINE
    /\ cl.nodes[n].health_score >= 50
    /\ n \notin req.forbidden_nodes
    /\ req.required_tags \subseteq cl.nodes[n].tags
    /\ TrueAvailableVcpus(n) >= req.vcpus
    /\ TrueAvailableMem(n) >= req.memory

SameResources(a, b) ==
    /\ cl.nodes[a].total_threads = cl.nodes[b].total_threads
    /\ cl.nodes[a].mem_total = cl.nodes[b].mem_total
    /\ cl.nodes[a].mem_free = cl.nodes[b].mem_free
    /\ cl.nodes[a].sto_total = cl.nodes[b].sto_total
    /\ cl.nodes[a].sto_free = cl.nodes[b].sto_free
    /\ cl.nodes[a].network_healthy = cl.nodes[b].network_healthy

\* C16: under SPREAD, of two feasible nodes with the same resources the one
\* hosting fewer VMs scores at least as much, and a node hosting strictly more
\* VMs than such a node is not the one selected.
SpreadPrefersEmptier ==
    (clh.op = "schedule" /\ clh.rc = 0 /\ clh.req.policy = SCHED_POLICY_SPREAD) =>
        \A a, b \in NodeIds :
            (/\ TrulyFeasible(a, clh.req) /\ TrulyFeasible(b, clh.req)
             /\ SameResources(a, b)
             /\ cl.nodes[a].vm_count < cl.nodes[b].vm_count) =>
                /\ scheduler_score_node(cl, a, clh.req).total_score
                      >= scheduler_score_node(cl, b, clh.req).total_score
                /\ clh.result.selected_node # b

\* C17: under PACK, with N1 hosting 3 VMs and N2, N3 one each on identical
\* resources, a feasible request for 2 vCPUs / 1 GiB selects N1, and the score
\* it is ranked by, 100 minus the SPREAD total, lies in 0..100 (the scheduler's
\* score array having been allocated).
PackSelectsFullest ==
    (/\ clh.op = "schedule" /\ ~clh.nomem /\ clh.req.policy = SCHED_POLICY_PACK
     /\ clh.req.vcpus = 2 /\ clh.req.memory = 1
     /\ cl.nodes[1].vm_count = 3 /\ cl.nodes[2].vm_count = 1 /\ cl.nodes[3].vm_count = 1
     /\ \A n \in NodeIds : TrulyFeasible(n, clh.req) /\ SameResources(n, 1)) =>
        /\ clh.rc = 0
        /\ clh.result.selected_node = 1
        /\ clh.result.score \in 0..100

\* C30: under policy RANDOM the selected node is chosen among the feasible
\* nodes without regard to their scores: every feasible node is selected by
\* some execution of scheduler_schedule on the same cluster and request.
RandomReachesAll ==
    (clh.op = "schedule" /\ clh.rc = 0 /\ clh.req.policy = SCHED_POLICY_RANDOM) =>
        \A n \in NodeIds :
            scheduler_score_node(cl, n, clh.req).feasible =>
                \E allocOk \in BOOLEAN :
                    scheduler_schedule(cl, clh.req, allocOk).result.selected_node = n

(***************************************************************************)
(* AffinitySpec: VMs are created, started and migrated between the nodes,  *)
(* and scheduler_schedule is run with requests that name VMs to be placed  *)
(* with (affinity) or away from (anti-affinity).                           *)
(***************************************************************************)
AffinityRequests ==
    {[vcpus |-> 2, memory |-> 1, policy |-> p, required_tags |-> {},
      forbidden_nodes |-> {}, affinity_vm_ids |-> a, anti_affinity_vm_ids |-> b] :
        p \in {SCHED_POLICY_SPREAD, SCHED_POLICY_RANDOM},
        a \in SUBSET (1..MaxVms), b \in SUBSET (1..MaxVms)}

ScheduleAffine ==
    \E req \in AffinityRequests : \E allocOk \in BOOLEAN :
        LET r == scheduler_schedule(Begin, req, allocOk)
        IN /\ CanSchedOp
           /\ cl' = r.c
           /\ clh' = [SchedOpDone("schedule") EXCEPT !.req = req, !.result = r.result,
                                                     !.rc = r.rc, !.nomem = ~allocOk]

AffinityNext ==
    \/ VmCreate /\ ClusterFrame
    \/ VmStart /\ ClusterFrame
    \/ VmMigrate /\ ClusterFrame
    \/ ScheduleAffine /\ ClusterFrame

\* The weighted sum of the four resource scores.
WeightedScore(sc) ==
    (sc.cpu_score * WEIGHT_CPU + sc.memory_score * WEIGHT_MEMORY
     + sc.storage_score * WEIGHT_STORAGE + sc.network_score * WEIGHT_NETWORK) \div 100

\* C29: the total score of a feasible node is the weighted sum of its
\* resource scores plus a bonus of floor((affinity_score - 50) / 4), so that
\* a co-located affinity VM raises and a co-located anti-affinity VM lowers
\* the total.
TotalIncludesAffinity ==
    (clh.op = "schedule" /\ ~clh.nomem) =>
        \A n \in NodeIds :
            LET sc == scheduler_score_node(cl, n, clh.req)
            IN sc.feasible =>
                   sc.total_score = WeightedScore(sc) + ((sc.affinity_score - 50) \div 4)

(***************************************************************************)
(* Cluster membership (src/src/cluster/node.c): the cluster_t, its node    *)
(* list (head first), quorum and leader.  Nodes are named by the ids       *)
(* node_create hands out, 1..MemberCount.  Nothing in the sources writes   *)
(* health.last_heartbeat, so it keeps the 0 that kmalloc(GFP_ZERO) left.   *)
(* The resource totals of cluster_update_stats are not part of this model, *)
(* and node_count stays below CLUSTER_MAX_NODES.                           *)
(* Times are in units of HEALTH_TIMEOUT_MS / 2.                            *)
(***************************************************************************)
HEALTH_TIMEOUT_MS == 2  \* 5000 in node.h, scaled
MemberCount == 3        \* nodes created
MaxNow == 4             \* latest now_ms handed to cluster_tick
MaxTicks == 2           \* cluster_tick calls
MaxElects == 1          \* cluster_elect_leader calls after start-up

NODE_STATE_UNKNOWN == 0

MemberIds == 1..MemberCount

Tsc == {0, 1}           \* values rdtsc() returns to cluster_add_node

\* node_create, with is_local as the caller sets it afterwards.
member_create(is_local) ==
    [state |-> NODE_STATE_UNKNOWN, is_local |-> is_local, last_heartbeat |-> 0,
     joined_time |-> 0, uptime |-> 0]

cluster_create ==
    [nodes |-> [n \in MemberIds |-> member_create(FALSE)], list |-> <<>>,
     node_count |-> 0, online_count |-> 0, local_node |-> 0, leader_id |-> 0,
     is_leader |-> FALSE, quorum_size |-> 1, has_quorum |-> FALSE]

Listed(c) == {c.list[i] : i \in 1..Len(c.list)}

OnlineNodes(c) == {n \in Listed(c) : c.nodes[n].state = NODE_STATE_ONLINE}

LowestId(ids) == CHOOSE n \in ids : \A m \in ids : n <= m

cluster_elect_leader(c) ==
    IF OnlineNodes(c) = {} THEN c
    ELSE [c EXCEPT !.leader_id = LowestId(OnlineNodes(c)),
                   !.is_leader = (c.local_node # 0
                                  /\ c.local_node = LowestId(OnlineNodes(c)))]

cluster_check_quorum(c) == [c EXCEPT !.has_quorum = (c.online_count >= c.quorum_size)]

cluster_update_stats(c) == [c EXCEPT !.online_count = W32(Cardinality(OnlineNodes(c)))]

cluster_add_node(c, n, tsc) ==
    cluster_update_stats(
        [c EXCEPT !.nodes[n].state = NODE_STATE_ONLINE,
                  !.nodes[n].joined_time = tsc,
                  !.list = <<n>> \o @,
                  !.node_count = W32(@ + 1),
                  !.quorum_size = (W32(c.node_count + 1) \div 2) + 1,
                  !.online_count = W32(@ + 1)])

TimedOutInclusive(c, n, now_ms) ==
    /\ c.nodes[n].state = NODE_STATE_ONLINE
    /\ ~c.nodes[n].is_local
    /\ W64(now_ms - c.nodes[n].last_heartbeat) >= HEALTH_TIMEOUT_MS

TimedOut(c, n, now_ms) ==
    /\ c.nodes[n].state = NODE_STATE_ONLINE
    /\ ~c.nodes[n].is_local
    /\ W64(now_ms - c.nodes[n].last_heartbeat) > HEALTH_TIMEOUT_MS

\* The first half of the loop body of cluster_tick.
CheckFailed(c, n, now_ms) ==
    IF TimedOut(c, n, now_ms)
    THEN cluster_elect_leader(cluster_check_quorum(
             [c EXCEPT !.nodes[n].state = NODE_STATE_FAILED,
                       !.online_count = W32(@ - 1)]))
    ELSE c

\* The second half.
UpdateUptime(c, n, now_ms) ==
    IF c.nodes[n].state = NODE_STATE_ONLINE
    THEN [c EXCEPT !.nodes[n].uptime = W64(now_ms - c.nodes[n].joined_time)]
    ELSE c

\* The loop of cluster_tick from list position i on.
RECURSIVE TickFrom(_, _, _)
TickFrom(c, i, now_ms) ==
    IF i > Len(c.list) THEN c
    ELSE TickFrom(UpdateUptime(CheckFailed(c, c.list[i], now_ms), c.list[i], now_ms),
                  i + 1, now_ms)

cluster_tick(c, now_ms) == TickFrom(c, 1, now_ms)

(***************************************************************************)
(* Membership as a state machine.  Start-up is main.c's: the local node is *)
(* marked, added, recorded as local_node, then a leader is elected and     *)
(* quorum checked.  The other nodes join later; the clock only advances.   *)
(***************************************************************************)
StartUp(local, tsc) ==
    cluster_check_quorum(cluster_elect_leader(
        [cluster_add_node([cluster_create EXCEPT !.nodes[local].is_local = TRUE],
                          local, tsc)
           EXCEPT !.local_node = local]))

MemberInit ==
    \E local \in MemberIds, tsc \in Tsc :
        /\ cluster = StartUp(local, tsc)
        /\ mship = [op |-> "start", now |-> 0, ticks |-> 0, elects |-> 0]

ClusterAddNode ==
    \E n \in MemberIds \ Listed(cluster), tsc \in Tsc :
        /\ cluster' = cluster_add_node(cluster, n, tsc)
        /\ mship' = [mship EXCEPT !.op = "add"]

ClusterElectLeader ==
    /\ mship.elects < MaxElects
    /\ cluster' = cluster_check_quorum(cluster_elect_leader(cluster))
    /\ mship' = [mship EXCEPT !.op = "elect", !.elects = @ + 1]

ClusterTick ==
    \E now_ms \in mship.now..MaxNow :
        /\ mship.ticks < MaxTicks
        /\ cluster' = cluster_tick(cluster, now_ms)
        /\ mship' = [mship EXCEPT !.op = "tick", !.now = now_ms, !.ticks = @ + 1]

MemberNext ==
    \/ ClusterAddNode /\ MemberFrame
    \/ ClusterElectLeader /\ MemberFrame
    \/ ClusterTick /\ MemberFrame

\* The non-local Online nodes whose last heartbeat is more than
\* HEALTH_TIMEOUT_MS before now_ms.
Stale(now_ms) ==
    {n \in OnlineNodes(cluster) :
        ~cluster.nodes[n].is_local
        /\ now_ms - cluster.nodes[n].last_heartbeat > HEALTH_TIMEOUT_MS}

\* C23: a cluster_tick(now_ms) makes every stale node Failed and leaves every
\* other Online node Online; online_count drops by the number of
\* stale nodes; and if there was one, has_quorum is online_count >=
\* quorum_size afterwards and leader_id is the lowest id still Online.
TickFailsStaleNodes ==
    [][mship'.op = "tick" /\ mship'.ticks = mship.ticks + 1 =>
          /\ \A n \in Stale(mship'.now) : cluster'.nodes[n].state = NODE_STATE_FAILED
          /\ \A n \in OnlineNodes(cluster) \ Stale(mship'.now) :
                 cluster'.nodes[n].state = NODE_STATE_ONLINE
          /\ cluster'.online_count = cluster.online_count - Cardinality(Stale(mship'.now))
          /\ Stale(mship'.now) # {} =>
                 /\ cluster'.has_quorum = (cluster'.online_count >= cluster'.quorum_size)
                 /\ OnlineNodes(cluster') # {} =>
                        cluster'.leader_id = LowestId(OnlineNodes(cluster'))]_allVars

\* A tick has just failed two nodes, one of them the leader: quorum is lost
\* and the local node has taken over.
TickFailsStaleWitness ==
    /\ mship.op = "tick"
    /\ Cardinality({n \in MemberIds : cluster.nodes[n].state = NODE_STATE_FAILED}) = 2
    /\ cluster.online_count = 1
    /\ ~cluster.has_quorum
    /\ cluster.leader_id = cluster.local_node
    /\ cluster.local_node # 1

(***************************************************************************)
(* Membership with nodes leaving.  LeaveSpec adds cluster_remove_node to   *)
(* the calls of MemberSpec; any node created may be handed to it, listed   *)
(* or not, and a node that left may be added again.                        *)
(***************************************************************************)
NODE_STATE_LEAVING == 5
MaxRemoves == 1         \* cluster_remove_node calls

Unlink(c, n) ==
    IF n \in Listed(c)
    THEN [c EXCEPT !.list = SelectSeq(@, LAMBDA m : m # n),
                   !.node_count = W32(@ - 1),
                   !.online_count = W32(@ - 1)]
    ELSE c

QuorumSize(node_count) == IF node_count > 0 THEN (node_count \div 2) + 1 ELSE 1

cluster_remove_node(c, n) ==
    cluster_update_stats(
        [Unlink([c EXCEPT !.nodes[n].state = NODE_STATE_LEAVING], n)
           EXCEPT !.quorum_size = QuorumSize(Unlink(c, n).node_count)])

LeaveInit ==
    \E local \in MemberIds, tsc \in Tsc :
        /\ cluster = StartUp(local, tsc)
        /\ mship = [op |-> "start", now |-> 0, ticks |-> 0, elects |-> 0, removes |-> 0]

ClusterRemoveNode ==
    \E n \in MemberIds :
        /\ mship.removes < MaxRemoves
        /\ cluster' = cluster_remove_node(cluster, n)
        /\ mship' = [mship EXCEPT !.op = "remove", !.removes = @ + 1]

LeaveNext ==
    \/ ClusterAddNode /\ MemberFrame
    \/ ClusterRemoveNode /\ MemberFrame
    \/ ClusterElectLeader /\ MemberFrame
    \/ ClusterTick /\ MemberFrame

\* C38: whenever the cluster records a leader, leader_id is the id of a node
\* that is in the cluster's node list and is Online.
LeaderListedOnline ==
    cluster.leader_id # 0 => cluster.leader_id \in OnlineNodes(cluster)

(***************************************************************************)
(* Paging (src/src/mm/paging.c).  Four levels of tables of PT_ENTRIES      *)
(* entries; a 4 KiB page is PageCells cells, so a 2 MiB page is            *)
(* PT_ENTRIES pages and a 1 GiB page PT_ENTRIES 2 MiB pages.  A table is   *)
(* named by its physical address (phys_to_virt is the identity map);       *)
(* tables come from the PMM at TableBase and above, mapped memory lies     *)
(* below.  pctx.grants is the number of pages the PMM can still hand out.    *)
(***************************************************************************)
PT_ENTRIES == 2         \* 512 in paging.h
PageCells == 2          \* PAGE_SIZE, scaled
TableBase == 64         \* first address the PMM hands out for tables
MaxGrants == 5          \* pages the PMM has for page tables
MaxPagingOps == 2       \* paging_map / paging_unmap calls

MB2 == PT_ENTRIES * PageCells
GB1 == PT_ENTRIES * MB2

PML4_INDEX(addr) == (addr \div (PT_ENTRIES * GB1)) % PT_ENTRIES
PDPT_INDEX(addr) == (addr \div GB1) % PT_ENTRIES
PD_INDEX(addr) == (addr \div MB2) % PT_ENTRIES
PT_INDEX(addr) == (addr \div PageCells) % PT_ENTRIES
PAGE_OFFSET(addr) == addr % PageCells

\* addr is the entry's bits under PTE_ADDR_MASK, bits its flag bits other than
\* PTE_PRESENT and PTE_HUGE.
ZeroPte == [present |-> FALSE, huge |-> FALSE, addr |-> 0, bits |-> {}]

ZeroTable == [i \in 0..(PT_ENTRIES - 1) |-> ZeroPte]

flags_to_pte(flags) ==
    (IF "MAP_WRITE" \in flags THEN {"PTE_WRITABLE"} ELSE {})
    \cup (IF "MAP_USER" \in flags THEN {"PTE_USER"} ELSE {})
    \cup (IF "MAP_EXEC" \notin flags THEN {"PTE_NO_EXECUTE"} ELSE {})
    \cup (IF "MAP_NOCACHE" \in flags THEN {"PTE_CACHE_DISABLE"} ELSE {})

\* table 0 is NULL.
alloc_page_table(p) ==
    IF p.grants = 0 THEN [p |-> p, table |-> 0]
    ELSE LET a == TableBase + p.allocs * PageCells
         IN [table |-> a,
             p |-> [p EXCEPT !.tables = [x \in DOMAIN p.tables \cup {a} |->
                                           IF x = a THEN ZeroTable ELSE p.tables[x]],
                             !.allocs = @ + 1,
                             !.grants = @ - 1]]

\* One level of get_pte: the table the entry points to, created on demand.
Descend(p, table, idx, create) ==
    LET e == p.tables[table][idx]
    IN IF e.present THEN [p |-> p, next |-> e.addr, huge |-> e.huge]
       ELSE IF ~create THEN [p |-> p, next |-> 0, huge |-> FALSE]
       ELSE LET a == alloc_page_table(p)
            IN IF a.table = 0 THEN [p |-> p, next |-> 0, huge |-> FALSE]
               ELSE [next |-> a.table, huge |-> FALSE,
                     p |-> [a.p EXCEPT !.tables[table][idx] =
                              [present |-> TRUE, huge |-> FALSE, addr |-> a.table,
                               bits |-> {"PTE_WRITABLE"}]]]

NoPte(p) == [p |-> p, table |-> 0, idx |-> 0]

\* An entry that is not a table is followed as if it were: what is read there
\* is not defined.
WildWalk(p) == NoPte([p EXCEPT !.fault = TRUE])

\* get_pte returns the place of the entry as table and idx; table 0 is NULL.
\* PtLevel is its last step, below the page directory entry s3 of table pd.
PtLevel(pd, s3, virt) ==
    IF s3.huge THEN [p |-> s3.p, table |-> pd, idx |-> PD_INDEX(virt)]
    ELSE IF s3.next = 0 THEN NoPte(s3.p)
    ELSE IF s3.next \notin DOMAIN s3.p.tables THEN WildWalk(s3.p)
    ELSE [p |-> s3.p, table |-> s3.next, idx |-> PT_INDEX(virt)]

\* The step below the PDPT entry s2 of table pdpt.
PdLevel(pdpt, s2, virt, create) ==
    IF s2.huge THEN [p |-> s2.p, table |-> pdpt, idx |-> PDPT_INDEX(virt)]
    ELSE IF s2.next = 0 THEN NoPte(s2.p)
    ELSE IF s2.next \notin DOMAIN s2.p.tables THEN WildWalk(s2.p)
    ELSE PtLevel(s2.next, Descend(s2.p, s2.next, PD_INDEX(virt), create), virt)

\* The step below the PML4 entry s1.
PdptLevel(s1, virt, create) ==
    IF s1.next = 0 THEN NoPte(s1.p)
    ELSE IF s1.next \notin DOMAIN s1.p.tables THEN WildWalk(s1.p)
    ELSE PdLevel(s1.next, Descend(s1.p, s1.next, PDPT_INDEX(virt), create), virt, create)

get_pte(p, virt, create) ==
    PdptLevel(Descend(p, p.pml4, PML4_INDEX(virt), create), virt, create)

Leaf(phys, bits, huge) == [present |-> TRUE, huge |-> huge, addr |-> phys, bits |-> bits]

MapFailed(p, m) == [m EXCEPT !.p = p, !.rc = -1]

Advance(m, p, step) ==
    [m EXCEPT !.p = p, !.virt = @ + step, !.phys = @ + step, !.size = @ - step]

\* The three loops of paging_map; m carries the context with the virt, phys
\* and size still to map.  Store1G is the body of the first loop after its
\* get_pte returned g.
Store1G(m, g, bits) ==
    IF g.p.fault \/ g.table = 0 THEN MapFailed(g.p, m)
    ELSE Advance(m, [g.p EXCEPT !.tables[g.p.tables[g.p.pml4][PML4_INDEX(m.virt)].addr]
                                        [PDPT_INDEX(m.virt)] = Leaf(m.phys, bits, TRUE)],
                 GB1)

RECURSIVE MapLoop1G(_, _)
MapLoop1G(m, bits) ==
    IF m.size < GB1 \/ m.rc # 0 THEN m
    ELSE MapLoop1G(Store1G(m, get_pte(m.p, m.virt, TRUE), bits), bits)

\* The second loop tests only PTE_PRESENT: a 1 GiB entry in the PDPT is taken
\* for a page directory and written through.
Store2M(m, s2, bits) ==
    IF s2.next = 0 THEN MapFailed(s2.p, m)
    ELSE IF s2.next \notin DOMAIN s2.p.tables THEN MapFailed(WildWalk(s2.p).p, m)
    ELSE Advance(m, [s2.p EXCEPT !.tables[s2.next][PD_INDEX(m.virt)] =
                                    Leaf(m.phys, bits, TRUE)],
                 MB2)

Ensure2M(m, s1, bits) ==
    IF s1.next = 0 THEN MapFailed(s1.p, m)
    ELSE Store2M(m, Descend(s1.p, s1.next, PDPT_INDEX(m.virt), TRUE), bits)

RECURSIVE MapLoop2M(_, _)
MapLoop2M(m, bits) ==
    IF m.size < MB2 \/ m.rc # 0 THEN m
    ELSE MapLoop2M(Ensure2M(m, Descend(m.p, m.p.pml4, PML4_INDEX(m.virt), TRUE), bits),
                   bits)

Store4K(m, g, bits) ==
    IF g.p.fault \/ g.table = 0 THEN MapFailed(g.p, m)
    ELSE Advance(m, [g.p EXCEPT !.tables[g.table][g.idx] = Leaf(m.phys, bits, FALSE)],
                 PageCells)

\* size is a whole number of pages here, as it is for every caller.
RECURSIVE MapLoop4K(_, _)
MapLoop4K(m, bits) ==
    IF m.size <= 0 \/ m.rc # 0 THEN m
    ELSE MapLoop4K(Store4K(m, get_pte(m.p, m.virt, TRUE), bits), bits)

Loop1G(m, flags) ==
    IF "MAP_HUGE_1G" \in flags THEN MapLoop1G(m, flags_to_pte(flags)) ELSE m

Loop2M(m, flags) ==
    IF m.rc = 0 /\ "MAP_HUGE_2M" \in flags THEN MapLoop2M(m, flags_to_pte(flags)) ELSE m

paging_map(p, virt, phys, size, flags) ==
    MapLoop4K(Loop2M(Loop1G([p |-> p, rc |-> 0, virt |-> virt, phys |-> phys,
                             size |-> size], flags), flags),
              flags_to_pte(flags))

ClearPte(g) ==
    IF g.table # 0 /\ g.p.tables[g.table][g.idx].present
    THEN [g.p EXCEPT !.tables[g.table][g.idx] = ZeroPte]
    ELSE g.p

RECURSIVE paging_unmap(_, _, _)
paging_unmap(p, virt, size) ==
    IF size <= 0 \/ p.fault THEN p
    ELSE paging_unmap(ClearPte(get_pte(p, virt, FALSE)), virt + PageCells,
                      IF size >= PageCells THEN size - PageCells ELSE 0)

ReadPte(g, virt) ==
    IF g.p.fault THEN -1
    ELSE IF g.table = 0 \/ ~g.p.tables[g.table][g.idx].present THEN 0
    ELSE g.p.tables[g.table][g.idx].addr + PAGE_OFFSET(virt)

\* -1 stands for the undefined result of a walk through a non-table.
paging_get_phys(p, virt) == ReadPte(get_pte(p, virt, FALSE), virt)

(***************************************************************************)
(* A context as a state machine: paging_create_context with an empty       *)
(* kernel half, then paging_map and paging_unmap calls whose virt, phys    *)
(* and size are aligned to the page size the flags select.                 *)
(***************************************************************************)
PageSizeOf(flags) ==
    IF "MAP_HUGE_1G" \in flags THEN GB1
    ELSE IF "MAP_HUGE_2M" \in flags THEN MB2 ELSE PageCells

MapFlags == {{"MAP_WRITE"}, {"MAP_WRITE", "MAP_HUGE_2M"}, {"MAP_WRITE", "MAP_HUGE_1G"}}

VirtSpace == 0..(PT_ENTRIES * PT_ENTRIES * GB1 - 1)

MapRequests ==
    {r \in [virt : {v \in VirtSpace : v % PageCells = 0},
            phys : {q \in (GB1 \div 2)..(TableBase - 1) : q % PageCells = 0},
            pages : 1..2, flags : MapFlags] :
        /\ r.virt % PageSizeOf(r.flags) = 0
        /\ r.phys % PageSizeOf(r.flags) = 0
        /\ r.phys \div MB2 \in {1, 2}
        /\ r.virt \div MB2 \in {0, 1, 2}
        /\ r.virt + r.pages * PageSizeOf(r.flags) - 1 \in VirtSpace
        /\ r.phys + r.pages * PageSizeOf(r.flags) <= TableBase}

NoPagingCall == [op |-> "create", virt |-> 0, phys |-> 0, size |-> 0, rc |-> 0, ops |-> 0]

PagingInit ==
    \E grants \in 0..MaxGrants :
        /\ pctx = [tables |-> [x \in {TableBase} |-> ZeroTable], pml4 |-> TableBase,
                 allocs |-> 1, grants |-> grants, fault |-> FALSE]
        /\ pgh = NoPagingCall

PagingMap ==
    \E r \in MapRequests :
        LET size == r.pages * PageSizeOf(r.flags)
            m == paging_map(pctx, r.virt, r.phys, size, r.flags)
        IN /\ pgh.ops < MaxPagingOps
           /\ ~pctx.fault
           /\ pctx' = m.p
           /\ pgh' = [op |-> "map", virt |-> r.virt, phys |-> r.phys, size |-> size,
                      rc |-> m.rc, ops |-> pgh.ops + 1]

PagingUnmap ==
    \E virt \in {v \in VirtSpace : v % PageCells = 0 /\ v \div MB2 \in {0, 1, 2}} :
        \E size \in {PageCells, MB2, GB1} :
            /\ pgh.ops < MaxPagingOps
            /\ ~pctx.fault
            /\ virt + size - 1 \in VirtSpace
            /\ pctx' = paging_unmap(pctx, virt, size)
            /\ pgh' = [op |-> "unmap", virt |-> virt, phys |-> 0, size |-> size,
                       rc |-> 0, ops |-> pgh.ops + 1]

PagingNext ==
    \/ PagingMap /\ PagingFrame
    \/ PagingUnmap /\ PagingFrame

\* C18: after a map that succeeded, every address virt + k of the range
\* translates to phys + k; after an unmap, every address of its range
\* translates to 0.
TranslateAfterMap ==
    /\ (pgh.op = "map" /\ pgh.rc = 0 /\ ~pctx.fault) =>
          \A k \in 0..(pgh.size - 1) : paging_get_phys(pctx, pgh.virt + k) = pgh.phys + k
    /\ (pgh.op = "unmap" /\ ~pctx.fault) =>
          \A k \in 0..(pgh.size - 1) : paging_get_phys(pctx, pgh.virt + k) = 0

(***************************************************************************)
(* EPT (src/src/vmm/ept.c).  The same four-level geometry as the host      *)
(* page tables; an entry is present when it has EPT_READ, and a large      *)
(* page has EPT_LARGE_PAGE.  perm is the entry's subset of                 *)
(* {EPT_READ, EPT_WRITE, EPT_EXECUTE}.                                     *)
(***************************************************************************)
EPT_ENTRIES == PT_ENTRIES
MaxEptOps == 3          \* EPT calls on one context
MaxEptGrants == 4       \* pages the PMM has for EPT tables

EPT_PML4_INDEX(addr) == (addr \div (EPT_ENTRIES * GB1)) % EPT_ENTRIES
EPT_PDPT_INDEX(addr) == (addr \div GB1) % EPT_ENTRIES
EPT_PD_INDEX(addr) == (addr \div MB2) % EPT_ENTRIES
EPT_PT_INDEX(addr) == (addr \div PageCells) % EPT_ENTRIES

EPT_PERM_RWX == {"EPT_READ", "EPT_WRITE", "EPT_EXECUTE"}

ZeroEpt == [perm |-> {}, large |-> FALSE, addr |-> 0, memtype |-> 0]

ZeroEptTable == [i \in 0..(EPT_ENTRIES - 1) |-> ZeroEpt]

ept_alloc_table(c) ==
    IF c.grants = 0 THEN [c |-> c, table |-> 0]
    ELSE [table |-> TableBase + c.allocs * PageCells,
          c |-> [c EXCEPT !.tables = [x \in DOMAIN c.tables
                                            \cup {TableBase + c.allocs * PageCells} |->
                                        IF x \in DOMAIN c.tables THEN c.tables[x]
                                        ELSE ZeroEptTable],
                          !.allocs = @ + 1,
                          !.grants = @ - 1]]

\* The pointer an allocation a leaves in entry idx of table.
LinkTable(a, table, idx) ==
    IF a.table = 0 THEN [c |-> a.c, next |-> 0]
    ELSE [next |-> a.table,
          c |-> [a.c EXCEPT !.tables[table][idx] =
                   [perm |-> EPT_PERM_RWX, large |-> FALSE, addr |-> a.table,
                    memtype |-> 0]]]

\* One level of ept_walk below an entry that is not a large page.
EptDescend(c, table, idx, create) ==
    IF "EPT_READ" \in c.tables[table][idx].perm
    THEN [c |-> c, next |-> c.tables[table][idx].addr]
    ELSE IF ~create THEN [c |-> c, next |-> 0]
    ELSE LinkTable(ept_alloc_table(c), table, idx)

NoEptEntry(c) == [c |-> c, table |-> 0, idx |-> 0]

\* An entry that is not a table is followed as if it were one.
EptWild(c) == NoEptEntry([c EXCEPT !.fault = TRUE])

EptPtLevel(s3, guest_phys) ==
    IF s3.next = 0 THEN NoEptEntry(s3.c)
    ELSE IF s3.next \notin DOMAIN s3.c.tables THEN EptWild(s3.c)
    ELSE [c |-> s3.c, table |-> s3.next, idx |-> EPT_PT_INDEX(guest_phys)]

EptPdLevel(s2, guest_phys, create) ==
    IF s2.next = 0 THEN NoEptEntry(s2.c)
    ELSE IF s2.next \notin DOMAIN s2.c.tables THEN EptWild(s2.c)
    ELSE IF s2.c.tables[s2.next][EPT_PD_INDEX(guest_phys)].large
    THEN [c |-> s2.c, table |-> s2.next, idx |-> EPT_PD_INDEX(guest_phys)]
    ELSE EptPtLevel(EptDescend(s2.c, s2.next, EPT_PD_INDEX(guest_phys), create),
                    guest_phys)

EptPdptLevel(s1, guest_phys, create) ==
    IF s1.next = 0 THEN NoEptEntry(s1.c)
    ELSE IF s1.next \notin DOMAIN s1.c.tables THEN EptWild(s1.c)
    ELSE IF s1.c.tables[s1.next][EPT_PDPT_INDEX(guest_phys)].large
    THEN [c |-> s1.c, table |-> s1.next, idx |-> EPT_PDPT_INDEX(guest_phys)]
    ELSE EptPdLevel(EptDescend(s1.c, s1.next, EPT_PDPT_INDEX(guest_phys), create),
                    guest_phys, create)

\* Returns the place of the entry as table and idx; table 0 is NULL.
ept_walk(c, guest_phys, create) ==
    EptPdptLevel(EptDescend(c, c.pml4, EPT_PML4_INDEX(guest_phys), create),
                 guest_phys, create)

AlignDown(addr, size) == (addr \div size) * size

StorePage(w, host_phys, perm, memtype) ==
    IF w.c.fault \/ w.table = 0 THEN [c |-> w.c, rc |-> -1]
    ELSE [rc |-> 0,
          c |-> [w.c EXCEPT !.tables[w.table][w.idx] =
                              [perm |-> perm, large |-> FALSE, addr |-> host_phys,
                               memtype |-> memtype],
                            !.mapped_pages = @ + 1]]

ept_map_page(c, guest_phys, host_phys, perm, memtype) ==
    StorePage(ept_walk(c, AlignDown(guest_phys, PageCells), TRUE),
              AlignDown(host_phys, PageCells), perm, memtype)

\* ept_map_page_2m tests only EPT_READ on the way down: a 1 GiB entry in the
\* PDPT is taken for a page directory and written through.
StorePage2m(s2, guest_phys, host_phys, perm, memtype) ==
    IF s2.next = 0 THEN [c |-> s2.c, rc |-> -1]
    ELSE IF s2.next \notin DOMAIN s2.c.tables THEN [c |-> EptWild(s2.c).c, rc |-> -1]
    ELSE [rc |-> 0,
          c |-> [s2.c EXCEPT !.tables[s2.next][EPT_PD_INDEX(guest_phys)] =
                               [perm |-> perm, large |-> TRUE, addr |-> host_phys,
                                memtype |-> memtype],
                             !.mapped_pages = @ + EPT_ENTRIES]]

EnsurePd(s1, guest_phys, host_phys, perm, memtype) ==
    IF s1.next = 0 THEN [c |-> s1.c, rc |-> -1]
    ELSE StorePage2m(EptDescend(s1.c, s1.next, EPT_PDPT_INDEX(guest_phys), TRUE),
                     guest_phys, host_phys, perm, memtype)

ept_map_page_2m(c, guest_phys, host_phys, perm, memtype) ==
    EnsurePd(EptDescend(c, c.pml4, EPT_PML4_INDEX(AlignDown(guest_phys, MB2)), TRUE),
             AlignDown(guest_phys, MB2), AlignDown(host_phys, MB2), perm, memtype)

ClearEntry(w) ==
    IF ~w.c.fault /\ w.table # 0 /\ "EPT_READ" \in w.c.tables[w.table][w.idx].perm
    THEN [rc |-> 0,
          c |-> [w.c EXCEPT !.tables[w.table][w.idx] = ZeroEpt,
                            !.mapped_pages = @ - 1]]
    ELSE [c |-> w.c, rc |-> -1]

ept_unmap_page(c, guest_phys) == ClearEntry(ept_walk(c, guest_phys, FALSE))

(***************************************************************************)
(* A context as a state machine: ept_create, then map and unmap calls.     *)
(* EptMapPageAgain repeats the ept_map_page call just made, with the same  *)
(* arguments.                                                              *)
(***************************************************************************)
GuestSpace == 0..(MB2 + PageCells - 1)

HostAddrs == {MB2, MB2 + PageCells + 1, 2 * MB2}

EptPerms == {{"EPT_READ"}, {"EPT_READ", "EPT_WRITE"}, EPT_PERM_RWX}

EptMemtypes == {0, 6}

NoEptCall ==
    [op |-> "create", guest_phys |-> 0, host_phys |-> 0, perm |-> {}, memtype |-> 0,
     rc |-> 0, ops |-> 0]

EptInit ==
    \E grants \in 0..MaxEptGrants :
        /\ ept = [tables |-> [x \in {TableBase} |-> ZeroEptTable], pml4 |-> TableBase,
                  mapped_pages |-> 0, allocs |-> 1, grants |-> grants, fault |-> FALSE]
        /\ eph = NoEptCall

EptCalled(op, g, h, perm, memtype, r) ==
    /\ ept' = r.c
    /\ eph' = [op |-> op, guest_phys |-> g, host_phys |-> h, perm |-> perm,
               memtype |-> memtype, rc |-> r.rc, ops |-> eph.ops + 1]

EptMapPage ==
    \E g \in GuestSpace, h \in HostAddrs, perm \in EptPerms, memtype \in EptMemtypes :
        /\ eph.ops < MaxEptOps
        /\ ~ept.fault
        /\ EptCalled("map_4k", g, h, perm, memtype, ept_map_page(ept, g, h, perm, memtype))

EptMapPageAgain ==
    /\ eph.ops < MaxEptOps
    /\ ~ept.fault
    /\ eph.op = "map_4k"
    /\ eph.rc = 0
    /\ EptCalled("map_4k_again", eph.guest_phys, eph.host_phys, eph.perm, eph.memtype,
                 ept_map_page(ept, eph.guest_phys, eph.host_phys, eph.perm, eph.memtype))

EptMapPage2m ==
    \E g \in {0, MB2}, h \in {MB2, 2 * MB2}, perm \in {EPT_PERM_RWX} :
        /\ eph.ops < MaxEptOps
        /\ ~ept.fault
        /\ EptCalled("map_2m", g, h, perm, 6, ept_map_page_2m(ept, g, h, perm, 6))

EptUnmapPage ==
    \E g \in GuestSpace :
        /\ eph.ops < MaxEptOps
        /\ ~ept.fault
        /\ EptCalled("unmap", g, 0, {}, 0, ept_unmap_page(ept, g))

EptNext ==
    \/ EptMapPage /\ EptFrame
    \/ EptMapPageAgain /\ EptFrame
    \/ EptMapPage2m /\ EptFrame
    \/ EptUnmapPage /\ EptFrame

\* C19: a second ept_map_page with the arguments of the one just made, which
\* succeeded, leaves the context as the first left it: the same tables (leaf
\* entry and permissions) and the same mapped_pages.
MapPageIdempotent ==
    [][eph'.op = "map_4k_again" =>
          /\ eph'.rc = 0
          /\ ept'.tables = ept.tables
          /\ ept'.mapped_pages = ept.mapped_pages]_allVars

(***************************************************************************)
(* RaftTimerSpec: two nodes, each with both registered, with the           *)
(* clock modelled.  The caller of raft_tick passes now_ms, the time since  *)
(* boot in milliseconds; the handlers read the time stamp counter with     *)
(* rdtsc(), which counts TscPerMs cycles in a millisecond.  One unit of    *)
(* the clock stands for 150 ms.                                            *)
(***************************************************************************)
RAFT_HEARTBEAT_MS == 1      \* scaled from 150
RAFT_ELECTION_MIN_MS == 2   \* scaled from 300
RAFT_ELECTION_MAX_MS == 4   \* scaled from 500
TscPerMs == 3               \* cycles per clock unit, scaled from some 10^6 per ms
MaxClock == 3               \* the clock stops here
TimedNodes == 2             \* RaftTimerSpec: nodes
MaxElectionsT == 2          \* RaftTimerSpec
MaxHeartbeatsT == 2         \* RaftTimerSpec

\* get_random_timeout: min_ms + tsc % (max_ms - min_ms).
Timeouts == RAFT_ELECTION_MIN_MS..(RAFT_ELECTION_MAX_MS - 1)

rdtsc == W64(timer.now * TscPerMs)

\* accepted[n] is empty, or holds the clock of node n's last acceptance.
NeverAccepted == <<>>

TimerInit ==
    /\ raft = [n \in 1..TimedNodes |-> AddAll(raft_init(n), TimedNodes)]
    /\ net = {}
    /\ hist = HistInit([elections |-> MaxElectionsT, heartbeats |-> MaxHeartbeatsT,
                        submits |-> 0, allocfails |-> 0, adds |-> 0, cycles |-> 0])
    /\ timer \in {[now |-> 0,
                   last_heartbeat |-> [n \in 1..TimedNodes |-> 0],    \* memset in raft_init
                   election_timeout |-> eto,
                   last_hb |-> [n \in 1..TimedNodes |-> 0],           \* the static of raft_tick
                   accepted |-> [n \in 1..TimedNodes |-> NeverAccepted]] :
                      eto \in [1..TimedNodes -> Timeouts]}

ClockAdvance ==
    /\ timer.now < MaxClock
    /\ timer' = [timer EXCEPT !.now = @ + 1]
    /\ UNCHANGED <<raft, net, hist>>

\* raft_tick(raft, now_ms) with both comparisons computed from the stored
\* time stamps, in 64-bit unsigned arithmetic.
TimedTick(n) ==
    LET hbDue == W64(timer.now - timer.last_hb[n]) >= RAFT_HEARTBEAT_MS
        timedOut == W64(timer.now - timer.last_heartbeat[n]) >= timer.election_timeout[n]
        res == raft_tick(raft[n], hbDue, timedOut)
        elected == res.r.current_term # raft[n].current_term
        beat == res.r.state = RAFT_LEADER /\ res.out # {}
    IN /\ res.r # raft[n] \/ res.out # {}
       /\ elected => hist.elections < hist.lim.elections
       /\ beat => hist.heartbeats < hist.lim.heartbeats
       /\ raft' = [raft EXCEPT ![n] = res.r]
       /\ net' = net \cup res.out
       /\ hist' = [hist EXCEPT !.elections = @ + (IF elected THEN 1 ELSE 0),
                               !.heartbeats = @ + (IF beat THEN 1 ELSE 0),
                               !.leaders = @ \cup Leaders(raft')]
       /\ IF raft[n].state = RAFT_LEADER
          THEN timer' = IF hbDue THEN [timer EXCEPT !.last_hb[n] = timer.now] ELSE timer
          ELSE IF timedOut
          THEN \E t \in Timeouts :
                   timer' = [timer EXCEPT !.last_heartbeat[n] = timer.now,
                                          !.election_timeout[n] = t]
          ELSE timer' = timer

\* raft_recv_message: handle_vote_request stores rdtsc() in last_heartbeat
\* when it grants, handle_append_request when the request's term is not
\* below current_term.  accepted records the clock when a vote was granted
\* or an AppendEntries answered with success.
TimedRecv(n) ==
    \E m \in net :
        /\ m.to = n
        /\ LET res == raft_recv_message(raft[n], m)
               granted == m.type = RAFT_MSG_VOTE_REQ /\ \E resp \in res.out : resp.granted
               stamped == m.type = RAFT_MSG_APPEND_REQ /\ m.term >= raft[n].current_term
               success == m.type = RAFT_MSG_APPEND_REQ /\ \E resp \in res.out : resp.success
           IN /\ raft' = [raft EXCEPT ![n] = res.r]
              /\ net' = net \cup res.out
              /\ hist' = [hist EXCEPT !.leaders = @ \cup Leaders(raft')]
              /\ timer' = [timer EXCEPT
                              !.last_heartbeat[n] = IF granted \/ stamped THEN rdtsc ELSE @,
                              !.accepted[n] = IF granted \/ success THEN <<timer.now>> ELSE @]

TimerNext ==
    \/ ClockAdvance /\ RaftFrame
    \/ (\E n \in Cluster : TimedTick(n)) /\ RaftFrame
    \/ (\E n \in Cluster : TimedRecv(n)) /\ RaftFrame

\* C27: a Follower becomes Candidate only when a full election timeout has
\* elapsed since it last accepted an AppendEntries request or granted a
\* vote (so a follower that receives valid heartbeats at the heartbeat
\* interval, which is shorter than the smallest election timeout, never
\* starts an election).
ElectionNeedsTimeout ==
    [][\A n \in Cluster :
          (/\ raft[n].state = RAFT_FOLLOWER
           /\ raft'[n].state = RAFT_CANDIDATE
           /\ timer.accepted[n] # NeverAccepted) =>
              timer.now - timer.accepted[n][1] >= timer.election_timeout[n]]_allVars

(***************************************************************************)
(* VCPU (src/src/vmm/vcpu.c, src/src/vmm/vmexit.c).  One VCPU, on which    *)
(* vcpu_run and, after a VM exit, vmexit_handler are called.  The guest    *)
(* registers and the VMCS guest fields the handlers emulate on are not     *)
(* part of the model; whether the VM entry succeeds and which exit the     *)
(* guest takes are inputs.                                                 *)
(***************************************************************************)
VCPU_STATE_CREATED == 0
VCPU_STATE_RUNNING == 1
VCPU_STATE_HALTED == 2
VCPU_STATE_WAITING == 3
VCPU_STATE_SHUTDOWN == 4

MaxVcpuCalls == 5       \* vcpu_run and vmexit_handler calls

EXIT_REASON_EXTERNAL_INT == "external_int"
EXIT_REASON_TRIPLE_FAULT == "triple_fault"
EXIT_REASON_CPUID == "cpuid"
EXIT_REASON_HLT == "hlt"
EXIT_REASON_VMCALL == "vmcall"
EXIT_REASON_CR_ACCESS == "cr_access"
EXIT_REASON_IO_INSTR == "io_instr"
EXIT_REASON_RDMSR == "rdmsr"
EXIT_REASON_WRMSR == "wrmsr"
EXIT_REASON_EPT_VIOLATION == "ept_violation"
EXIT_REASON_INVLPG == "invlpg"      \* one of the reasons without a case

Emulated ==
    {EXIT_REASON_CPUID, EXIT_REASON_IO_INSTR, EXIT_REASON_RDMSR, EXIT_REASON_WRMSR,
     EXIT_REASON_CR_ACCESS, EXIT_REASON_VMCALL}

ExitReasons ==
    Emulated \cup {EXIT_REASON_HLT, EXIT_REASON_EXTERNAL_INT, EXIT_REASON_TRIPLE_FAULT,
                   EXIT_REASON_EPT_VIOLATION, EXIT_REASON_INVLPG}

NoReason == "none"

vcpu_create ==
    [state |-> VCPU_STATE_CREATED, launched |-> FALSE, exit_reason |-> NoReason,
     exit_count |-> 0, vmentry_failures |-> 0]

\* vcpu_run: entered is whether VMLAUNCH / VMRESUME returned VMX_OK, reason
\* the exit reason read from the VMCS afterwards.  rc is -1 or, after an
\* exit, 0 (the exit reason itself in the code).
vcpu_run(v, entered, reason) ==
    LET v1 == [v EXCEPT !.state = VCPU_STATE_RUNNING]
    IN IF ~v.launched /\ ~entered
       THEN [v |-> [v1 EXCEPT !.vmentry_failures = W64(@ + 1)], rc |-> -1]
       ELSE IF ~entered THEN [v |-> v1, rc |-> -1]
       ELSE [v |-> [v1 EXCEPT !.launched = TRUE,
                              !.exit_reason = reason,
                              !.exit_count = W64(@ + 1)],
             rc |-> 0]

handle_hlt(v) == [v |-> [v EXCEPT !.state = VCPU_STATE_HALTED], rc |-> 0]

vmexit_handler(v) ==
    CASE v.exit_reason \in Emulated -> [v |-> v, rc |-> 0]
      [] v.exit_reason = EXIT_REASON_HLT -> handle_hlt(v)
      [] v.exit_reason = EXIT_REASON_EXTERNAL_INT -> [v |-> v, rc |-> 0]
      [] v.exit_reason = EXIT_REASON_EPT_VIOLATION -> [v |-> v, rc |-> -1]
      [] v.exit_reason = EXIT_REASON_TRIPLE_FAULT -> [v |-> v, rc |-> -1]
      [] OTHER -> [v |-> v, rc |-> -1]

VcpuInit ==
    /\ vcpu = vcpu_create
    /\ vxh = [op |-> "create", rc |-> 0, calls |-> 0]

VcpuRun ==
    \E entered \in BOOLEAN, reason \in ExitReasons :
        LET r == vcpu_run(vcpu, entered, reason)
        IN /\ vxh.calls < MaxVcpuCalls
           /\ vcpu' = r.v
           /\ vxh' = [op |-> "run", rc |-> r.rc, calls |-> vxh.calls + 1]

\* The dispatch that follows a VM exit.
VmexitHandler ==
    LET r == vmexit_handler(vcpu)
    IN /\ vxh.calls < MaxVcpuCalls
       /\ vxh.op = "run" /\ vxh.rc = 0
       /\ vcpu' = r.v
       /\ vxh' = [op |-> "exit", rc |-> r.rc, calls |-> vxh.calls + 1]

VcpuNext ==
    \/ VcpuRun /\ VmxFrame
    \/ VmexitHandler /\ VmxFrame

\* C31: after a VM exit for a triple fault or for an unhandled exit reason,
\* and after a VMLAUNCH or VMRESUME that fails, the VCPU is marked errored:
\* it is not left recorded as Running.
FatalExitMarksErrored ==
    (\/ vxh.op = "run" /\ vxh.rc = -1
     \/ /\ vxh.op = "exit"
        /\ vcpu.exit_reason \notin Emulated \cup {EXIT_REASON_HLT, EXIT_REASON_EXTERNAL_INT,
                                                  EXIT_REASON_EPT_VIOLATION}) =>
        vcpu.state # VCPU_STATE_RUNNING

(***************************************************************************)
(* Synchronous block I/O (src/src/storage/block.c).  block_read and        *)
(* block_write run on BlockCpus CPUs; both go through the same steps and   *)
(* share the statics sync_complete and sync_status, which no lock guards.  *)
(* The two submit implementations of the repository (mem_submit and        *)
(* volume_submit) call the completion before they return and return its    *)
(* status; the status itself is an input.  A step is one access to the     *)
(* shared statics.  The per-device counters are not modelled.              *)
(***************************************************************************)
BlockCpus == 2          \* CPUs calling into the block layer
BlockDevs == 2          \* block devices
MaxBlockCalls == 2      \* block_read / block_write calls of one CPU

Cpus == 1..BlockCpus

NoStatus == <<>>

IdleCpu == [pc |-> "idle", op |-> BLOCK_OP_READ, dev |-> 1, own |-> NoStatus, calls |-> 0]

BlockInit ==
    /\ blk = [sync_complete |-> 0, sync_status |-> 0, cpu |-> [c \in Cpus |-> IdleCpu]]
    /\ bkh = [c \in Cpus |-> [own |-> NoStatus, ret |-> NoStatus]]

\* block_read / block_write up to the request being filled in; a request
\* that cannot be allocated ends the call with -1.
BlockCall(c) ==
    \E op \in {BLOCK_OP_READ, BLOCK_OP_WRITE}, dev \in 1..BlockDevs, allocOk \in BOOLEAN :
        /\ blk.cpu[c].pc = "idle"
        /\ blk.cpu[c].calls < MaxBlockCalls
        /\ blk' = [blk EXCEPT !.cpu[c] = [pc |-> IF allocOk THEN "clear" ELSE "idle",
                                          op |-> op, dev |-> dev, own |-> NoStatus,
                                          calls |-> @.calls + 1]]
        /\ bkh' = [bkh EXCEPT ![c] = [own |-> NoStatus,
                                      ret |-> IF allocOk THEN NoStatus ELSE <<-1>>]]

\* sync_complete = 0;
BlockClear(c) ==
    /\ blk.cpu[c].pc = "clear"
    /\ blk' = [blk EXCEPT !.sync_complete = 0, !.cpu[c].pc = "submit"]
    /\ bkh' = bkh

\* dev->ops->submit up to the first store of sync_completion:
\* sync_status = status;
BlockSubmit(c) ==
    \E status \in {0, -1} :
        /\ blk.cpu[c].pc = "submit"
        /\ blk' = [blk EXCEPT !.sync_status = status,
                              !.cpu[c].pc = "complete",
                              !.cpu[c].own = <<status>>]
        /\ bkh' = bkh

\* sync_complete = 1; and the return of submit: a status other than 0 is
\* returned by the call at once.
BlockComplete(c) ==
    LET ret == blk.cpu[c].own[1]
    IN /\ blk.cpu[c].pc = "complete"
       /\ blk' = [blk EXCEPT !.sync_complete = 1,
                             !.cpu[c].pc = IF ret # 0 THEN "idle" ELSE "wait"]
       /\ bkh' = IF ret # 0 THEN [bkh EXCEPT ![c] = [own |-> <<ret>>, ret |-> <<ret>>]]
                 ELSE bkh

\* while (!sync_complete) pause;
BlockWait(c) ==
    /\ blk.cpu[c].pc = "wait"
    /\ blk.sync_complete # 0
    /\ blk' = [blk EXCEPT !.cpu[c].pc = "status"]
    /\ bkh' = bkh

\* ret = sync_status; ... return ret;
BlockReturn(c) ==
    /\ blk.cpu[c].pc = "status"
    /\ blk' = [blk EXCEPT !.cpu[c].pc = "idle"]
    /\ bkh' = [bkh EXCEPT ![c] = [own |-> blk.cpu[c].own, ret |-> <<blk.sync_status>>]]

BlockNext ==
    \/ (\E c \in Cpus : BlockCall(c)) /\ BlockFrame
    \/ (\E c \in Cpus : BlockClear(c)) /\ BlockFrame
    \/ (\E c \in Cpus : BlockSubmit(c)) /\ BlockFrame
    \/ (\E c \in Cpus : BlockComplete(c)) /\ BlockFrame
    \/ (\E c \in Cpus : BlockWait(c)) /\ BlockFrame
    \/ (\E c \in Cpus : BlockReturn(c)) /\ BlockFrame

\* C35: a synchronous call returns the completion status of its own request,
\* never that of a call running on another CPU.
ReturnsOwnStatus ==
    \A c \in Cpus :
        (bkh[c].own # NoStatus /\ bkh[c].ret # NoStatus) => bkh[c].ret = bkh[c].own

(***************************************************************************)
(* Specifications.  Each runs one subsystem from its initial state; the    *)
(* other subsystems stay as constructed.                                   *)
(***************************************************************************)
PoolSpecInit == PoolInit /\ RaftIdle /\ PmmIdle /\ HeapIdle /\ ClusterIdle /\ MmuIdle
    /\ MemberIdle
    /\ HvIdle

PoolSpec == PoolSpecInit /\ [][PoolNext]_allVars

PmmSpecInit == PmmInit /\ RaftIdle /\ PoolIdle /\ HeapIdle /\ ClusterIdle /\ MmuIdle
    /\ MemberIdle
    /\ HvIdle

PmmSpec == PmmSpecInit /\ [][PmmNext]_allVars

HeapSpecInit == HeapInit /\ RaftIdle /\ PoolIdle /\ PmmIdle /\ ClusterIdle /\ MmuIdle
    /\ MemberIdle
    /\ HvIdle

HeapSpec == HeapSpecInit /\ [][HeapNext]_allVars

ClusterSpecInit == ClusterInit /\ RaftIdle /\ PoolIdle /\ PmmIdle /\ HeapIdle /\ MmuIdle
    /\ MemberIdle
    /\ HvIdle

ClusterSpec == ClusterSpecInit /\ [][ClusterNext]_allVars

PlacementSpecInit == PlacementInit /\ RaftIdle /\ PoolIdle /\ PmmIdle /\ HeapIdle /\ MmuIdle
    /\ MemberIdle
    /\ HvIdle

PlacementSpec == PlacementSpecInit /\ [][PlacementNext]_allVars

ExtentSpecInit ==
    ExtentInit /\ RaftIdle /\ PmmIdle /\ HeapIdle /\ ClusterIdle /\ MmuIdle /\ MemberIdle
    /\ HvIdle

ExtentSpec == ExtentSpecInit /\ [][ExtentNext]_allVars

MemberSpecInit ==
    MemberInit /\ RaftIdle /\ PoolIdle /\ PmmIdle /\ HeapIdle /\ ClusterIdle /\ MmuIdle
    /\ HvIdle

MemberSpec == MemberSpecInit /\ [][MemberNext]_allVars

PagingSpecInit ==
    PagingInit /\ EptIdle /\ RaftIdle /\ PoolIdle /\ PmmIdle /\ HeapIdle /\ ClusterIdle
    /\ MemberIdle
    /\ HvIdle

PagingSpec == PagingSpecInit /\ [][PagingNext]_allVars

EptSpecInit ==
    EptInit /\ PagingIdle /\ RaftIdle /\ PoolIdle /\ PmmIdle /\ HeapIdle /\ ClusterIdle
    /\ MemberIdle
    /\ HvIdle

EptSpec == EptSpecInit /\ [][EptNext]_allVars

RaftTimerSpecInit == TimerInit /\ PoolIdle /\ PmmIdle /\ HeapIdle /\ ClusterIdle /\ MmuIdle
    /\ MemberIdle
    /\ HvIdle

RaftTimerSpec == RaftTimerSpecInit /\ [][TimerNext]_allVars

AffinitySpecInit == ClusterInit /\ RaftIdle /\ PoolIdle /\ PmmIdle /\ HeapIdle /\ MmuIdle
    /\ MemberIdle
    /\ HvIdle

AffinitySpec == AffinitySpecInit /\ [][AffinityNext]_allVars

VcpuSpecInit ==
    VcpuInit /\ RaftIdle /\ PoolIdle /\ PmmIdle /\ HeapIdle /\ ClusterIdle /\ MmuIdle
    /\ MemberIdle /\ BlockIdle

VcpuSpec == VcpuSpecInit /\ [][VcpuNext]_allVars

IsolationSpecInit ==
    IsolationInit /\ RaftIdle /\ PmmIdle /\ HeapIdle /\ ClusterIdle /\ MmuIdle
    /\ MemberIdle /\ HvIdle

IsolationSpec == IsolationSpecInit /\ [][IsolationNext]_allVars

BlockSpecInit ==
    BlockInit /\ RaftIdle /\ PoolIdle /\ PmmIdle /\ HeapIdle /\ ClusterIdle /\ MmuIdle
    /\ MemberIdle /\ VmxIdle

BlockSpec == BlockSpecInit /\ [][BlockNext]_allVars

LeaveSpecInit ==
    LeaveInit /\ RaftIdle /\ PoolIdle /\ PmmIdle /\ HeapIdle /\ ClusterIdle /\ MmuIdle
    /\ HvIdle

LeaveSpec == LeaveSpecInit /\ [][LeaveNext]_allVars

RaceSpecInit ==
    RaceInit /\ RaftIdle /\ PoolIdle /\ PmmIdle /\ ClusterIdle /\ MmuIdle
    /\ MemberIdle /\ HvIdle

RaceSpec == RaceSpecInit /\ [][RaceNext]_allVars
====
